---- MODULE Spec2Model ----
(***************************************************************************)
(* Deterministic risk scoring of the NYC property risk assessment          *)
(* pipeline (src/pipeline/rag_pipeline.py) and the crime severity rate     *)
(* (src/agents/crime_agent.py).                                            *)
(*                                                                         *)
(* Python floats are modelled as extended rationals: a finite value n/d    *)
(* (d > 0, lowest terms), +inf, -inf or nan.  None is a further class so   *)
(* that Optional[float] is one type.  IEEE-754 rounding error cannot be    *)
(* represented in TLC's integers; it only shows where round() is applied   *)
(* to a value that is an exact tie k + 1/2 in real arithmetic, where the   *)
(* double may lie on either side.  The direction in which each such tie    *)
(* resolves is an input of the run (variable fp).                          *)
(***************************************************************************)
EXTENDS Integers, Sequences, FiniteSets, TLC

VARIABLES
    flood,      \* the flood dict handed to the scorers
    crime,      \* the crime dict handed to the scorers
    pluto,      \* the property record (None, {} or a PLUTO dict)
    fp,         \* how the doubles of this run resolve an exact rounding tie
    floodRes,   \* outcome of a call _flood_score(flood)
    crimeRes,   \* outcome of a call _crime_score(crime)
    propRes,    \* outcome of a call _property_score(pluto)
    scores,     \* outcome of a call compute_scores(flood, crime, pluto)
    crimeInfo,  \* the dict handed to score_crime_severity
    severity,   \* outcome of a call score_crime_severity(crimeInfo)
    now,        \* the calendar year in which the program runs
    borough,    \* sample_high_density_grid: the borough argument
    required,   \* sample_high_density_grid: the target count
    lattice,    \* the grid over the bounding box and what a fetch there returns
    pts,        \* the shuffled list of candidate points
    idx,        \* position of the for loop in pts
    boroScores, \* the list scores of accepted severity values
    origin,     \* history: the lattice point each accepted value came from
    fetches,    \* history: the lattice points fetched, in order
    warned,     \* the warning of line 117 was printed
    sampler,    \* outcome of the call sample_high_density_grid
    appPc,      \* app.py: the part of the request that runs next
    shown,      \* app.py: what the page shows so far
    fetched,    \* app.py: the modalities whose fetch was attempted
    crimeTier,  \* app.py: the relative risk shown in the crime column
    apiKey,     \* GROQ_API_KEY is set
    docs,       \* per run of generate_risk_assessment: what retrieval returns
    llm,        \* per run of generate_risk_assessment: what the LLM call returns
    genRes,     \* per run of generate_risk_assessment: its outcome
    geoCode,    \* the borough_code argument of the geocoders
    geoUp,      \* what the upstream service of each geocoder does
    geoRes,     \* outcome of the call of each geocoder
    api,        \* get_crime_data_api: what the API answers at each page
    offset,     \* get_crime_data_api: the local offset
    all_data,   \* get_crime_data_api: the local all_data
    requests,   \* history: the requests issued, in order
    pager,      \* outcome of the paging loop of get_crime_data_api
    collection, \* the number of documents the ChromaDB collection holds
    profile,    \* query_by_risk_profile: the arguments fshri and ss_2050
    n_results,  \* query_by_risk_profile: the argument n_results
    queryRes,   \* outcome of the call query_by_risk_profile
    tracts,     \* the number of tracts the source data holds
    _store,     \* the module global _store of rag_pipeline.py
    ingestions, \* history: the runs of ingest_fvi_data that completed
    storeCalls  \* history: the outcome of each call of _get_store, in order

samplerVars == <<borough, required, lattice, pts, idx, boroScores, origin,
                 fetches, warned, sampler>>

appVars == <<appPc, shown, fetched, crimeTier, apiKey>>

genVars == <<docs, llm, genRes>>

geoVars == <<geoCode, geoUp, geoRes>>

pageVars == <<api, offset, all_data, requests, pager>>

queryVars == <<profile, n_results, queryRes>>

storeVars == <<collection, tracts, _store, ingestions, storeCalls>>

\* The variables of the collaborators: geocoding, the paged crime query,
\* the vector store.
ioVars == <<geoVars, pageVars, queryVars, storeVars>>

\* The variables the scoring calls never touch.
others == <<now, samplerVars, appVars, genVars, ioVars>>

scoreVars == <<flood, crime, pluto, fp, floodRes, crimeRes, propRes, scores,
               crimeInfo, severity>>

\* The variables sample_high_density_grid never touches.
notSampler == <<scoreVars, now, appVars, genVars, ioVars>>

vars == <<flood, crime, pluto, fp, floodRes, crimeRes, propRes, scores,
          crimeInfo, severity, others>>

(***************************************************************************)
(* Extended rationals                                                      *)
(***************************************************************************)
Abs(x) == IF x < 0 THEN 0 - x ELSE x

Least(a, b) == IF a <= b THEN a ELSE b
Most(a, b) == IF a >= b THEN a ELSE b

RECURSIVE Gcd(_, _)
Gcd(a, b) == IF b = 0 THEN a ELSE Gcd(b, a % b)

\* The finite value n/d (d # 0), in lowest terms with a positive denominator.
Fin(n, d) ==
    LET g == Gcd(Abs(n), Abs(d))
        s == IF d < 0 THEN 0 - 1 ELSE 1
    IN  [c |-> "fin", n |-> (s * n) \div g, d |-> (s * d) \div g]

PInf  == [c |-> "pinf", n |-> 0, d |-> 1]
NInf  == [c |-> "ninf", n |-> 0, d |-> 1]
NaN   == [c |-> "nan",  n |-> 0, d |-> 1]
NoneX == [c |-> "none", n |-> 0, d |-> 1]

XNeg(a) ==
    CASE a.c = "fin"  -> Fin(0 - a.n, a.d)
      [] a.c = "pinf" -> NInf
      [] a.c = "ninf" -> PInf
      [] OTHER        -> a

\* a + b on doubles: inf + -inf is nan, nan is absorbing.
XAdd(a, b) ==
    CASE a.c = "nan" \/ b.c = "nan"     -> NaN
      [] a.c = "fin" /\ b.c = "fin"     -> Fin(a.n * b.d + b.n * a.d, a.d * b.d)
      [] a.c = "fin"                    -> b
      [] b.c = "fin"                    -> a
      [] a.c = b.c                      -> a
      [] OTHER                          -> NaN

XSub(a, b) == XAdd(a, XNeg(b))

XSign(a) ==
    CASE a.c = "fin"  -> (IF a.n > 0 THEN 1 ELSE IF a.n < 0 THEN 0 - 1 ELSE 0)
      [] a.c = "pinf" -> 1
      [] a.c = "ninf" -> 0 - 1
      [] OTHER        -> 0

\* a * b on doubles: 0 * inf is nan.
XMul(a, b) ==
    CASE a.c = "nan" \/ b.c = "nan"     -> NaN
      [] a.c = "fin" /\ b.c = "fin"     -> Fin(a.n * b.n, a.d * b.d)
      [] XSign(a) * XSign(b) > 0        -> PInf
      [] XSign(a) * XSign(b) < 0        -> NInf
      [] OTHER                          -> NaN

\* a / b on doubles for b # 0: inf / inf is nan, finite / inf is 0.
XDiv(a, b) ==
    CASE a.c = "nan" \/ b.c = "nan"     -> NaN
      [] a.c = "fin" /\ b.c = "fin"     -> Fin(a.n * b.d, a.d * b.n)
      [] a.c = "fin"                    -> Fin(0, 1)
      [] b.c = "fin"                    -> (IF XSign(a) * XSign(b) > 0 THEN PInf ELSE NInf)
      [] OTHER                          -> NaN

\* a < b on doubles: every comparison with nan is false.
XLt(a, b) ==
    CASE a.c = "nan" \/ b.c = "nan"     -> FALSE
      [] a.c = "fin" /\ b.c = "fin"     -> a.n * b.d < b.n * a.d
      [] a.c = "ninf"                   -> b.c # "ninf"
      [] b.c = "pinf"                   -> a.c # "pinf"
      [] OTHER                          -> FALSE

\* Python's min(a, b) and max(a, b): the first argument is kept unless the
\* second compares strictly below (above) it, so a nan second argument is dropped.
XMin(a, b) == IF XLt(b, a) THEN b ELSE a
XMax(a, b) == IF XLt(a, b) THEN b ELSE a

\* max(0, min(100, x)) as the scorers write it.
Clamp(x) == XMax(Fin(0, 1), XMin(Fin(100, 1), x))

IsTie(x) == x.c = "fin" /\ 2 * (x.n % x.d) = x.d

\* round(x) of a clamped value: nearest integer; at an exact tie the double lies
\* on the side given by up.
Round(x, up) ==
    LET q == x.n \div x.d
        r == x.n % x.d
    IN  IF 2 * r < x.d THEN q
        ELSE IF 2 * r > x.d THEN q + 1
        ELSE IF up THEN q + 1 ELSE q

(***************************************************************************)
(* Values found in the dicts.  A field is absent from the dict, None, a    *)
(* float (finite, nan, inf, -inf), a string that float() parses (numstr)   *)
(* or a string that float() rejects (str).                                 *)
(***************************************************************************)
Absent      == [k |-> "absent", n |-> 0, d |-> 1]
NoneV       == [k |-> "none",   n |-> 0, d |-> 1]
NanV        == [k |-> "nan",    n |-> 0, d |-> 1]
InfV        == [k |-> "inf",    n |-> 0, d |-> 1]
NInfV       == [k |-> "ninf",   n |-> 0, d |-> 1]
StrV        == [k |-> "str",    n |-> 0, d |-> 1]
Num(n)      == [k |-> "num",    n |-> n, d |-> 1]
Ratio(n, d) == [k |-> "num",    n |-> n, d |-> d]
NumStr(n)   == [k |-> "numstr", n |-> n, d |-> 1]

\* dict.get(key): None when the key is absent.
Get(v) == IF v.k = "absent" THEN NoneV ELSE v

\* float(v) for a value float() accepts.
ToFloat(v) ==
    CASE v.k \in {"num", "numstr"} -> Fin(v.n, v.d)
      [] v.k = "nan"               -> NaN
      [] v.k = "inf"               -> PInf
      [] v.k = "ninf"              -> NInf

\* float(None) raises TypeError, float("abc") raises ValueError.
FloatRaises(v) == v.k \in {"none", "str"}

\* A faulty _fv that lacks the NaN test of line 75.
MutFvKeepsNaN(v) ==
    IF v.k = "none" \/ FloatRaises(v) THEN NoneX ELSE ToFloat(v)

\* _fv: float or None, NaN and unparseable values as None.
_fv(v) ==
    IF v.k = "none" THEN NoneX
    ELSE IF FloatRaises(v) THEN NoneX
    ELSE IF ToFloat(v).c = "nan" THEN NoneX ELSE ToFloat(v)

(***************************************************************************)
(* _flood_score                                                            *)
(***************************************************************************)
\* The FVI scale: every component is a value 1..5.
FVI_MAX == 5

\* The neutral score of a scorer whose inputs are missing.
NEUTRAL == 50

FloodKeys == {"FVI_storm_surge_present", "FVI_storm_surge_2050s",
              "FVI_storm_surge_2080s", "FVI_tidal_2020s", "FVI_tidal_2050s",
              "FVI_tidal_2080s", "FSHRI"}

\* The (value, weight) pairs whose value is not None, in order.
Valid(parts) == SelectSeq(parts, LAMBDA p : p[1].c # "none")

\* sum(v * w for v, w in parts), starting from 0 as sum() does.
RECURSIVE SumVW(_)
SumVW(parts) ==
    IF parts = <<>> THEN Fin(0, 1)
    ELSE LET n == Len(parts)
         IN  XAdd(SumVW(SubSeq(parts, 1, n - 1)), XMul(parts[n][1], parts[n][2]))

\* sum(w for _, w in parts)
RECURSIVE SumW(_)
SumW(parts) ==
    IF parts = <<>> THEN Fin(0, 1)
    ELSE LET n == Len(parts)
         IN  XAdd(SumW(SubSeq(parts, 1, n - 1)), parts[n][2])

\* A faulty average that divides by the nominal total weight of all parts.
MutNominalWeights(parts) ==
    LET valid == Valid(parts)
    IN  IF valid = <<>> THEN NoneX ELSE XDiv(SumVW(valid), SumW(parts))

\* Weighted average over the parts that are present, renormalised over their
\* weights; None when no part is present.
WeightedAvg(parts) ==
    LET valid == Valid(parts)
    IN  IF valid = <<>> THEN NoneX ELSE XDiv(SumVW(valid), SumW(valid))

composite_surge(f) ==
    WeightedAvg(<< <<_fv(Get(f["FVI_storm_surge_present"])), Fin(2, 10)>>,
                   <<_fv(Get(f["FVI_storm_surge_2050s"])),   Fin(5, 10)>>,
                   <<_fv(Get(f["FVI_storm_surge_2080s"])),   Fin(3, 10)>> >>)

\* sum(tidal_vals) / len(tidal_vals): every value weighs 1.
composite_tidal(f) ==
    WeightedAvg(<< <<_fv(Get(f["FVI_tidal_2020s"])), Fin(1, 1)>>,
                   <<_fv(Get(f["FVI_tidal_2050s"])), Fin(1, 1)>>,
                   <<_fv(Get(f["FVI_tidal_2080s"])), Fin(1, 1)>> >>)

combined(f) ==
    WeightedAvg(<< <<composite_surge(f),   Fin(4, 10)>>,
                   <<composite_tidal(f),   Fin(3, 10)>>,
                   <<_fv(Get(f["FSHRI"])), Fin(3, 10)>> >>)

\* A faulty flood index that falls as the combined index rises.
MutFloodRawInverted(f) ==
    LET cmb == combined(f)
    IN  IF cmb.c = "none" THEN NoneX
        ELSE Clamp(XMul(XDiv(XSub(Fin(FVI_MAX, 1), cmb), Fin(4, 1)), Fin(100, 1)))

\* The value handed to round(): max(0, min(100, (combined - 1) / 4 * 100)),
\* or None when the scorer returns the neutral value instead.
FloodRaw(f) ==
    LET cmb == combined(f)
    IN  IF cmb.c = "none" THEN NoneX
        ELSE Clamp(XMul(XDiv(XSub(cmb, Fin(1, 1)), Fin(4, 1)), Fin(100, 1)))

\* A faulty _flood_score that returns 0 when no component is usable.
MutFloodMissingIsZero(f, up) ==
    LET x == FloodRaw(f)
    IN  IF x.c = "none" THEN 0 ELSE Round(x, up)

_flood_score(f, up) ==
    LET x == FloodRaw(f)
    IN  IF x.c = "none" THEN NEUTRAL ELSE Round(x, up)

(***************************************************************************)
(* Call outcomes                                                           *)
(***************************************************************************)
Pending    == [st |-> "pending", v |-> 0, exc |-> ""]
Ok(v)      == [st |-> "ok",      v |-> v, exc |-> ""]
Raise(exc) == [st |-> "raise",   v |-> 0, exc |-> exc]

(***************************************************************************)
(* _crime_score                                                            *)
(***************************************************************************)
CrimeKeys == {"severity_score", "mean", "std"}

\* Truth value of a float: 0.0 (and -0.0) is false, everything else true.
Truthy(x) == ~(x.c = "fin" /\ x.n = 0)

\* A faulty z that is 1 instead of 0 when std is zero.
MutStdZeroGivesOne(sev, mean, std) ==
    IF Truthy(std) THEN XDiv(XSub(sev, mean), std) ELSE Fin(1, 1)

\* z = (sev - mean) / std if std else 0.0
zscore(sev, mean, std) ==
    IF Truthy(std) THEN XDiv(XSub(sev, mean), std) ELSE Fin(0, 1)

\* Fixed-point unit of SigmoidCuts: 1/10000.
SIGMOID_SCALE == 10000

\* SigmoidCuts[k] is the least z, in 1/10000 rounded up, at which
\* 100 / (1 + exp(-1.5 * (z - 0.3))) >= k - 1/2, that is
\* z >= 0.3 + ln((k - 1/2) / (100 + 1/2 - k)) / 1.5.  The cuts are irrational,
\* so round() meets no tie here.
SigmoidCuts ==
    <<0 - 32288, 0 - 24897, 0 - 21423, 0 - 19111, 0 - 17366, 0 - 15959, 0 - 14774, 0 - 13748, 0 - 12841, 0 - 12027,
      0 - 11285, 0 - 10604, 0 - 9972, 0 - 9383, 0 - 8829, 0 - 8306, 0 - 7809, 0 - 7337, 0 - 6885, 0 - 6452,
      0 - 6035, 0 - 5633, 0 - 5245, 0 - 4868, 0 - 4503, 0 - 4147, 0 - 3800, 0 - 3462, 0 - 3131, 0 - 2808,
      0 - 2490, 0 - 2178, 0 - 1872, 0 - 1571, 0 - 1273, 0 - 980, 0 - 691, 0 - 405, 0 - 122, 158,
      436, 712, 985, 1257, 1528, 1797, 2066, 2333, 2600, 2867,
      3134, 3401, 3668, 3935, 4204, 4473, 4744, 5016, 5289, 5565,
      5843, 6123, 6406, 6692, 6981, 7274, 7572, 7873, 8179, 8491,
      8809, 9132, 9463, 9801, 10148, 10504, 10869, 11246, 11634, 12036,
      12453, 12886, 13338, 13810, 14307, 14830, 15384, 15973, 16605, 17286,
      18028, 18842, 19749, 20775, 21960, 23367, 25112, 27424, 30898, 38289>>

\* math.exp(x) raises OverflowError for x > ln(DBL_MAX) = 709.7827..., which is
\* -1.5 * (z - 0.3) for z < -472.888475...; the cut is in 1/1000, rounded up.
\* (A finite z below -1.19e308 makes the product itself inf and exp(inf) = inf;
\* no such z arises from the values modelled.)
EXP_OVERFLOW_SCALE == 1000
EXP_OVERFLOW_CUT == -472888

\* round(max(0, min(100, 100 / (1 + math.exp(-1.5 * (z - 0.3)))))) for a double z.
\* z = +inf: exp(-inf) = 0, score 100.  z = -inf: exp(inf) = inf, score 0.
\* z = nan: the score is nan and min(100, nan) keeps 100.
Sigmoid(z) ==
    CASE z.c = "pinf" -> Ok(100)
      [] z.c = "ninf" -> Ok(0)
      [] z.c = "nan"  -> Ok(100)
      [] OTHER ->
           IF z.n * EXP_OVERFLOW_SCALE < EXP_OVERFLOW_CUT * z.d
           THEN Raise("OverflowError")
           ELSE Ok(Cardinality({k \in 1..100 :
                                  z.n * SIGMOID_SCALE >= SigmoidCuts[k] * z.d}))

_crime_score(cr) ==
    LET sev  == _fv(Get(cr["severity_score"]))
        mean == _fv(Get(cr["mean"]))
        std  == _fv(Get(cr["std"]))
    IN  IF sev.c = "none" \/ mean.c = "none" \/ std.c = "none"
        THEN Ok(NEUTRAL)
        ELSE Sigmoid(zscore(sev, mean, std))

(***************************************************************************)
(* _property_score                                                         *)
(***************************************************************************)
_BLDG_CLASS_RISK ==
    [A |-> 20, B |-> 30, C |-> 40, D |-> 50,
     E |-> 55, F |-> 60, G |-> 65, H |-> 50,
     I |-> 50, J |-> 45, K |-> 40, L |-> 55,
     M |-> 45, O |-> 60, Q |-> 50, R |-> 25,
     S |-> 40, U |-> 70, V |-> 70, W |-> 55]

\* A building class is absent, None or a string, modelled as its characters.
BcAbsent == [k |-> "absent", s |-> <<>>]
BcNone   == [k |-> "none",   s |-> <<>>]
BcStr(s) == [k |-> "str",    s |-> s]

\* str.strip(): leading and trailing blanks removed.
RECURSIVE Strip(_)
Strip(s) ==
    IF s = <<>> THEN s
    ELSE IF Head(s) = " " THEN Strip(Tail(s))
    ELSE IF s[Len(s)] = " " THEN Strip(SubSeq(s, 1, Len(s) - 1))
    ELSE s

\* str.upper() of one character, over the letters the model uses.
Upper(ch) ==
    CASE ch = "a" -> "A" [] ch = "d" -> "D" [] ch = "u" -> "U"
      [] ch = "r" -> "R" [] ch = "z" -> "Z" [] OTHER -> ch

\* str(pluto.get("bldgclass") or "").strip()
BcText(b) == IF b.k = "str" THEN Strip(b.s) ELSE <<>>

\* float(_BLDG_CLASS_RISK.get(bc[0].upper() if bc else "", 40))
class_score(b) ==
    LET bc  == BcText(b)
        key == IF bc # <<>> THEN Upper(bc[1]) ELSE ""
    IN  IF key \in DOMAIN _BLDG_CLASS_RISK THEN _BLDG_CLASS_RISK[key] ELSE 40

\* The year the age is counted from.
SCORING_YEAR == 2025
DEFAULT_YEARBUILT == 1975

\* int(x) of a finite double: truncation toward zero.
Trunc(x) == IF x.n >= 0 THEN x.n \div x.d ELSE 0 - ((0 - x.n) \div x.d)

\* The age component: Ok(age_score) as a float, or the exception that escapes.
\* float() failing (TypeError, ValueError) and int(nan) (ValueError) are caught
\* and give 40.0; int(inf) raises OverflowError, which is not caught.
age_score(p) ==
    LET yb == IF p.yearbuilt.k = "absent" THEN Num(DEFAULT_YEARBUILT)
              ELSE p.yearbuilt
    IN  IF FloatRaises(yb) THEN Ok(Fin(40, 1))
        ELSE IF ToFloat(yb).c = "nan" THEN Ok(Fin(40, 1))
        ELSE IF ToFloat(yb).c \in {"pinf", "ninf"} THEN Raise("OverflowError")
        ELSE Ok(Clamp(XMul(XDiv(Fin(SCORING_YEAR - Trunc(ToFloat(yb)) - 10, 1),
                                Fin(90, 1)),
                           Fin(100, 1))))

\* v or 0: None, an absent key and a zero number are replaced by 0.
OrZero(v) ==
    IF v.k \in {"absent", "none"} \/ (v.k = "num" /\ v.n = 0) THEN Num(0) ELSE v

\* A faulty value component that is neutral when the lot area is not positive.
MutZeroAreaNeutral(p) ==
    LET v == OrZero(p.assesstot)
        a == OrZero(p.lotarea)
    IN  IF FloatRaises(v) \/ FloatRaises(a) THEN Fin(50, 1)
        ELSE IF XLt(Fin(0, 1), ToFloat(a))
        THEN Clamp(XSub(Fin(100, 1), XDiv(ToFloat(v), ToFloat(a))))
        ELSE Fin(50, 1)

\* The value component: lower value per lot square foot is higher risk.
value_score(p) ==
    LET v == OrZero(p.assesstot)
        a == OrZero(p.lotarea)
    IN  IF FloatRaises(v) \/ FloatRaises(a) THEN Fin(50, 1)
        ELSE LET val  == ToFloat(v)
                 area == ToFloat(a)
                 val_per_sqft == IF XLt(Fin(0, 1), area) THEN XDiv(val, area)
                                 ELSE Fin(0, 1)
             IN  Clamp(XSub(Fin(100, 1), val_per_sqft))

\* A faulty guard that does not look for the "error" key.
MutNoRecordIgnoresError(p) ==
    \/ p.kind = "none"
    \/ (~p.error /\ ~p.other /\ p.yearbuilt.k = "absent" /\ p.bldgclass.k = "absent"
                  /\ p.assesstot.k = "absent" /\ p.lotarea.k = "absent")

\* not pluto or "error" in pluto
NoRecord(p) ==
    \/ p.kind = "none"
    \/ p.error
    \/ (~p.other /\ p.yearbuilt.k = "absent" /\ p.bldgclass.k = "absent"
                 /\ p.assesstot.k = "absent" /\ p.lotarea.k = "absent")

\* The value handed to round() when the record is scored and no exception
\* escapes: max(0, min(100, 0.40 * age + 0.30 * class + 0.30 * value)).
PropertyRaw(p) ==
    Clamp(XAdd(XAdd(XMul(Fin(40, 100), age_score(p).v),
                    XMul(Fin(30, 100), Fin(class_score(p.bldgclass), 1))),
               XMul(Fin(30, 100), value_score(p))))

_property_score(p, up) ==
    IF NoRecord(p) THEN Ok(NEUTRAL)
    ELSE LET age == age_score(p)
         IN  IF age.st = "raise" THEN Raise(age.exc)
             ELSE Ok(Round(PropertyRaw(p), up))

(***************************************************************************)
(* compute_scores                                                          *)
(***************************************************************************)
NoBundle == [st |-> "pending", flood |-> 0, crime |-> 0, property |-> 0,
             overall |-> 0, exc |-> ""]
BundleRaise(exc) == [NoBundle EXCEPT !.st = "raise", !.exc = exc]

\* 0.40 * f + 0.35 * c + 0.25 * p, the value handed to round().
OverallRaw(f, c, p) ==
    XAdd(XAdd(XMul(Fin(40, 100), Fin(f, 1)), XMul(Fin(35, 100), Fin(c, 1))),
         XMul(Fin(25, 100), Fin(p, 1)))

\* A faulty overall score: the plain mean of the three sub-scores.
MutOverallUnweighted(f, c, p, up) == Round(Fin(f + c + p, 3), up)

overall(f, c, p, up) == Round(OverallRaw(f, c, p), up)

\* The three scorers run in order; an exception of one escapes compute_scores.
compute_scores(fl, cr, pl, tie) ==
    LET f == _flood_score(fl, tie.flood)
        c == _crime_score(cr)
        p == _property_score(pl, tie.property)
    IN  IF c.st = "raise" THEN BundleRaise(c.exc)
        ELSE IF p.st = "raise" THEN BundleRaise(p.exc)
        ELSE [st |-> "ok", flood |-> f, crime |-> c.v, property |-> p.v,
              overall |-> overall(f, c.v, p.v, tie.overall), exc |-> ""]

(***************************************************************************)
(* score_crime_severity                                                    *)
(***************************************************************************)
\* SEVERITY_WEIGHTS.get(rec.get('law_cat_cd') or 'UNKNOWN', 0): a record's
\* category is a string, None ("None") or absent ("absent").
SEVERITY_WEIGHTS == [FELONY |-> 3, MISDEMEANOR |-> 2, VIOLATION |-> 1, UNKNOWN |-> 0]

\* A faulty weight that counts an unknown category as a VIOLATION.
MutUnknownCounts(cat) ==
    LET key == IF cat \in {"None", "absent"} THEN "UNKNOWN" ELSE cat
    IN  IF key \in DOMAIN SEVERITY_WEIGHTS /\ key # "UNKNOWN"
        THEN SEVERITY_WEIGHTS[key] ELSE 1

Weight(cat) ==
    LET key == IF cat \in {"None", "absent"} THEN "UNKNOWN" ELSE cat
    IN  IF key \in DOMAIN SEVERITY_WEIGHTS THEN SEVERITY_WEIGHTS[key] ELSE 0

\* sum(... for rec in crimes): the weights of the records, added up weight by
\* weight (each weight times the number of records that carry it).
RECURSIVE SumWeights(_, _)
SumWeights(crimes, ws) ==
    IF ws = {} THEN 0
    ELSE LET w == CHOOSE x \in ws : TRUE
         IN  w * Cardinality({i \in DOMAIN crimes : Weight(crimes[i]) = w})
             + SumWeights(crimes, ws \ {w})

total_weight(crimes) ==
    SumWeights(crimes, {Weight(crimes[i]) : i \in DOMAIN crimes})

\* total_weight / area * 1000; area is a float, so area = 0.0 raises.
score_crime_severity(info) ==
    IF info.area = 0 THEN Raise("ZeroDivisionError")
    ELSE Ok(XMul(XDiv(Fin(total_weight(info.data), 1), Fin(info.area, 1)),
                 Fin(1000, 1)))

(***************************************************************************)
(* sample_high_density_grid                                                *)
(***************************************************************************)
\* The least number of incidents of an accepted point.
MIN_INCIDENTS == 100

\* cmap
cmap == [b \in {"MANHATTAN", "BRONX", "BROOKLYN", "QUEENS", "STATEN ISLAND"} |->
            CASE b = "MANHATTAN" -> 1 [] b = "BRONX" -> 2 [] b = "BROOKLYN" -> 3
              [] b = "QUEENS" -> 4 [] OTHER -> 5]

\* borough.upper(), over the names the model uses.
UpperName(b) ==
    CASE b = "Brooklyn" -> "BROOKLYN" [] b = "Gotham" -> "GOTHAM" [] OTHER -> b

\* code = cmap.get(borough.upper()); if not code: raise ValueError
KnownBorough(b) == UpperName(b) \in DOMAIN cmap

\* The area of a radius buffer inside the city, in square metres.
BUFFER_AREA == 100000

Repeat(cat, n) == [i \in 1..n |-> cat]

\* The clipped records around the lattice points of each kind.
SparseData == Repeat("FELONY", MIN_INCIDENTS - 1)
FeloniesData == Repeat("FELONY", MIN_INCIDENTS)
ViolationsData == Repeat("VIOLATION", 2 * MIN_INCIDENTS)

\* What get_crime_data_api returns at a lattice point: the clipped records
\* and the intersected area, or the HTTP error of raise_for_status.
get_crime_data_api(kind) ==
    CASE kind = "sparse"     -> Ok([data |-> SparseData, area |-> BUFFER_AREA])
      [] kind = "felonies"   -> Ok([data |-> FeloniesData, area |-> BUFFER_AREA])
      [] kind = "violations" -> Ok([data |-> ViolationsData, area |-> BUFFER_AREA])
      [] kind = "empty"      -> Ok([data |-> <<>>, area |-> BUFFER_AREA])
      [] kind = "offshore"   -> Ok([data |-> <<>>, area |-> 0])
      [] OTHER               -> Raise("HTTPError")

\* score_crime_severity(info) of the sample each kind of point returns,
\* evaluated once for all points of the kind.
LocalSeverity ==
    [kind \in {"sparse", "felonies", "violations", "empty", "offshore"} |->
        score_crime_severity(get_crime_data_api(kind).v)]

\* The lattice points the polygon contains (the list pts before the shuffle).
Candidates(lat) == {i \in DOMAIN lat : lat[i].inside}

\* random.shuffle: every order of the candidates.
Shuffles(S) ==
    {p \in [1..Cardinality(S) -> S] : \A i, j \in DOMAIN p : p[i] = p[j] => i = j}

\* A faulty loop guard that stops only above the target.
MutEnoughAbove(sc, req) == Len(sc) > req

\* len(scores) >= required
Enough(sc, req) == Len(sc) >= req

\* A faulty loop that leaves out the last candidate.
MutExhaustedEarly(i, list) == i >= Len(list)

\* The for loop has run through the list.
Exhausted(i, list) == i > Len(list)

\* A faulty threshold that accepts a point one incident short.
MutDenseOffByOne(info) == Len(info.data) >= MIN_INCIDENTS - 1

\* not (len(info['data']) < 100)
Dense(info) == ~(Len(info.data) < MIN_INCIDENTS)

(***************************************************************************)
(* generate_risk_assessment                                                *)
(***************************************************************************)
\* The outcome of a call: pending, the returned dict, or the exception.
GenPending == [st |-> "pending", scores |-> NoBundle, narrative |-> "", exc |-> ""]

\* _sanitize: a NaN value becomes None, every other value is kept.
_sanitize(d) == [key \in DOMAIN d |-> IF d[key].k = "nan" THEN NoneV ELSE d[key]]

\* A faulty _sanitize that replaces the NaN values in the dict it was given.
MutSanitizeInPlace(d) == _sanitize(d)

\* The dict d of the caller once _sanitize(d) has returned: the loop writes
\* into the new dict out and only reads d.
AfterSanitize(d) == d

\* _safe_round of query_by_risk_profile raises on an infinite value:
\* round(float('inf')) is an OverflowError, which its except does not name.
SafeRoundRaises(v) == v.k \in {"inf", "ninf"}

GenRaise(exc) == [GenPending EXCEPT !.st = "raise", !.exc = exc]

\* A faulty pipeline that lets the response of the LLM set the overall score.
MutNarratorSetsScores(fl, cr, pl, tie, d, l) ==
    LET s == compute_scores(_sanitize(fl), _sanitize(cr), pl, tie)
    IN  IF s.st = "raise" THEN GenRaise(s.exc)
        ELSE IF d = "raise" THEN GenRaise("ChromaError")
        ELSE IF l = "raise" THEN GenRaise("HTTPError")
        ELSE [st |-> "ok", narrative |-> l, exc |-> "",
              scores |-> IF l = "text B" THEN [s EXCEPT !.overall = 100] ELSE s]

\* generate_risk_assessment on the inputs fl, cr, pl, where retrieval returns
\* d and the LLM call returns l (either may be "raise"): the scores are
\* computed first, then the context is retrieved, then the LLM is called.
generate_risk_assessment(fl, cr, pl, tie, d, l) ==
    LET f == _sanitize(fl)
        s == compute_scores(f, _sanitize(cr), pl, tie)
    IN  IF s.st = "raise" THEN GenRaise(s.exc)
        ELSE IF SafeRoundRaises(f["FSHRI"]) \/ SafeRoundRaises(f["FVI_storm_surge_2050s"])
        THEN GenRaise("OverflowError")
        ELSE IF d = "raise" THEN GenRaise("ChromaError")
        ELSE IF l = "raise" THEN GenRaise("HTTPError")
        ELSE [st |-> "ok", scores |-> s, narrative |-> l, exc |-> ""]

(***************************************************************************)
(* FloodRiskVectorStore: query and query_by_risk_profile                   *)
(***************************************************************************)
RISK_LEVEL == <<"very low", "low", "moderate", "high", "very high">>

\* round(f) of a finite double n/d: the nearest integer, the even one of the
\* two at a tie.  The arguments are values read from a dict, so a tie is an
\* exact k + 1/2 and no rounding error is in play.
RoundHalfEven(n, d) ==
    LET lo   == n \div d
        rest == 2 * (n - d * lo)
    IN  IF rest < d THEN lo
        ELSE IF rest > d THEN lo + 1
        ELSE IF lo % 2 = 0 THEN lo ELSE lo + 1

\* _safe_round(v), where it returns: 0 for None, a string float() rejects and
\* NaN, the rounded value otherwise.
_safe_round(v) ==
    IF v.k \in {"num", "numstr"} THEN RoundHalfEven(v.n, v.d) ELSE 0

\* RISK_LEVEL.get(_safe_round(v), "unknown")
risk_label(v) ==
    IF _safe_round(v) \in DOMAIN RISK_LEVEL THEN RISK_LEVEL[_safe_round(v)]
    ELSE "unknown"

\* The outcome of a call of _get_store, with the size of the collection of
\* the store it returned or left behind.
Returned(count) == [st |-> "ok", count |-> count, exc |-> ""]
Failed(where, count) == [st |-> "raise", count |-> count, exc |-> where]

\* if _store is None (negated)
HasStore(store) == store # "None"

QueryPending == [st |-> "pending", labels |-> <<>>, docs |-> <<>>, exc |-> ""]

\* query: nothing from an empty collection, else the min(n_results, count)
\* nearest documents, named here by their rank.
query(n, count) == IF count = 0 THEN <<>> ELSE [rank \in 1..Least(n, count) |-> rank]

\* query_by_risk_profile(fshri, ss_2050, n_results) on a collection of count
\* documents.  The labels are made first, so an infinite value raises
\* whatever the collection holds.
query_by_risk_profile(fshri, ss_2050, n, count) ==
    IF SafeRoundRaises(ss_2050) \/ SafeRoundRaises(fshri)
    THEN [QueryPending EXCEPT !.st = "raise", !.exc = "OverflowError"]
    ELSE [st |-> "ok", labels |-> <<risk_label(fshri), risk_label(ss_2050)>>,
          docs |-> query(n, count), exc |-> ""]

(***************************************************************************)
(* The request flow of app.py                                              *)
(***************************************************************************)
\* The defaults of the baseline when the sample is empty.
DEFAULT_MEAN == 2
DEFAULT_STD == 1

RECURSIVE SumX(_)
SumX(xs) == IF xs = <<>> THEN Fin(0, 1) ELSE XAdd(Head(xs), SumX(Tail(xs)))

\* ndarray.mean()
Mean(xs) == XDiv(SumX(xs), Fin(Len(xs), 1))

Squares(xs) ==
    LET m == Mean(xs)
    IN  [i \in DOMAIN xs |-> XMul(XSub(xs[i], m), XSub(xs[i], m))]

\* A faulty deviation with the divisor n - 1 of a sample estimate.
MutSampleVariance(xs) == XDiv(SumX(Squares(xs)), Fin(Most(Len(xs) - 1, 1), 1))

\* The square of ndarray.std(): the default ddof = 0 divides by n.
PopVariance(xs) == XDiv(SumX(Squares(xs)), Fin(Len(xs), 1))

\* The square root of a double is a double: it is modelled to the precision
\* 1 / SQRT_SCALE, rounded down (exact where the root is on that grid).
SQRT_SCALE == 1000

\* The greatest r in lo..hi with r * r <= m, by bisection.
RECURSIVE IsqrtIn(_, _, _)
IsqrtIn(m, lo, hi) ==
    IF lo = hi THEN lo
    ELSE LET mid == (lo + hi + 1) \div 2
         IN  IF mid * mid <= m THEN IsqrtIn(m, mid, hi) ELSE IsqrtIn(m, lo, mid - 1)

Isqrt(m) == IsqrtIn(m, 0, Least(m, 46340))

Sqrt(x) == Fin(Isqrt((x.n * SQRT_SCALE * SQRT_SCALE) \div x.d), SQRT_SCALE)

\* float(boro_scores.std())
Std(xs) == Sqrt(PopVariance(xs))

\* A float as a value of a dict.
FromFloat(x) == Ratio(x.n, x.d)

\* crime = {"severity_score": None, "mean": None, "std": None, "area": None}
UnavailableCrime == [key \in CrimeKeys |-> NoneV]

\* The crime dict of lines 138-146.
Baseline(sev, xs) ==
    [key \in CrimeKeys |->
        CASE key = "severity_score" -> FromFloat(sev)
          [] key = "mean" -> IF Len(xs) > 0 THEN FromFloat(Mean(xs)) ELSE Num(DEFAULT_MEAN)
          [] OTHER        -> IF Len(xs) > 0 THEN FromFloat(Std(xs)) ELSE Num(DEFAULT_STD)]

\* The relative risk of lines 154-165.
crime_tier(cr) ==
    IF \E key \in CrimeKeys : cr[key].k = "none" THEN "unavailable"
    ELSE LET z == zscore(ToFloat(cr["severity_score"]), ToFloat(cr["mean"]),
                         ToFloat(cr["std"]))
         IN  IF XLt(Fin(1, 1), z) THEN "High"
             ELSE IF XLt(Fin(0 - 1, 2), z) THEN "Moderate"
             ELSE "Low"

(***************************************************************************)
(* The paging loop of get_crime_data_api                                   *)
(***************************************************************************)
API_LIMIT == 1000

\* The answer of the API to a request: an HTTP error, or a page of so many
\* records (none: the empty page).  The records carry the page and the row
\* they came from.
HTTP_ERROR == -1

Page(i, n) == [row \in 1..n |-> <<i, row>>]

\* A faulty loop that takes a page shorter than a full one for the last.
MutShortPageStops(chunk, full) == Len(chunk) < full

\* if not chunk: break
Stops(chunk, full) == chunk = <<>>

\* offset += API_LIMIT
NextOffset(o) == o + API_LIMIT

(***************************************************************************)
(* Geocoding: geocode_address_1b and geocode_to_bbl                        *)
(***************************************************************************)
\* The outcome of a geocoder: pending, the returned value ("found" for the
\* coordinates or the BBL, "None"), or the exception that escaped.
GeoPending == [st |-> "pending", v |-> "", exc |-> ""]
GeoReturn(v) == [st |-> "ok", v |-> v, exc |-> ""]
GeoRaise(exc) == [st |-> "raise", v |-> "", exc |-> exc]

\* int(borough_code): an int, a float and a string of digits convert; any
\* other string is a ValueError, None a TypeError.
IntRaises(code) ==
    CASE code = "word" -> "ValueError"
      [] code = "none" -> "TypeError"
      [] OTHER         -> ""

\* The body of the try block: every exception of the request, of
\* raise_for_status, of r.json() and of the indexing is caught.
Try1b(up) == IF up = "found" THEN GeoReturn("found") ELSE GeoReturn("None")

\* geocode_address_1b: the borough name is looked up by int(borough_code)
\* before the try block is entered.
geocode_address_1b(code, up) ==
    IF IntRaises(code) # "" THEN GeoRaise(IntRaises(code)) ELSE Try1b(up)

\* geocode_to_bbl: the whole body is inside the try block, and the borough
\* code is passed on as a request parameter without conversion.  The BBL
\* comes from the three components or from the flat field.
geocode_to_bbl(code, up) ==
    IF up \in {"parts", "flat"} THEN GeoReturn("found") ELSE GeoReturn("None")

(***************************************************************************)
(* Inputs                                                                  *)
(***************************************************************************)
\* Bounds of the input sets.
MaxLevel == 3       \* flood components are swept over 1..MaxLevel
MaxSev == 3         \* crime rates are swept over -MaxSev..MaxSev
BigSev == 500       \* a rate far from the others, in the same unit
MaxDecades == 11    \* building ages are swept in decades up to this many
MaxRecs == 3        \* length of a crime sample
MaxArea == 2        \* intersected areas are swept over 0..MaxArea
MaxYearsOn == 1     \* the program runs up to this many years after SCORING_YEAR
MaxPoints == 3      \* lattice points over the bounding box of the borough
MaxPages == 3       \* the paging loop is followed over its first MaxPages requests
MaxPageLen == 2     \* a full page holds MaxPageLen records
MaxResults == 4     \* n_results is swept over 1..MaxResults
MaxDocs == 4        \* the collection holds up to MaxDocs documents
MaxCalls == 3       \* _get_store is called up to MaxCalls times in a process
MaxRequired == 2    \* target counts are swept over 0..MaxRequired

EmptyFlood == [key \in FloodKeys |-> Absent]

\* Flood records on the FVI scale with any subset of the components None.
ScaleFloods == [FloodKeys -> {NoneV} \cup {Num(i) : i \in 1..MaxLevel}]

\* Flood records with every component missing in one of the three ways.
MissingFloods == [FloodKeys -> {Absent, NoneV, NanV}]

\* A flood record whose surge, tidal and FSHRI components are s, t and h.
GroupFlood(s, t, h) ==
    [key \in FloodKeys |->
        IF key = "FSHRI" THEN h
        ELSE IF key \in {"FVI_tidal_2020s", "FVI_tidal_2050s", "FVI_tidal_2080s"}
        THEN t ELSE s]

OddValues == {Absent, NoneV, NanV, StrV, NumStr(2), InfV, NInfV, Num(0 - 1),
              Num(0), Num(1), Ratio(5, 2), Num(FVI_MAX), Num(FVI_MAX + 1)}

\* Flood records with unparseable, infinite and off-scale values.
OddFloods == {GroupFlood(s, t, h) : s \in OddValues, t \in OddValues, h \in OddValues}

\* The record of the module's own example: surge 2050s and 2080s at 2, FSHRI 3.
ExampleFlood ==
    [EmptyFlood EXCEPT !["FVI_storm_surge_present"] = NoneV,
                       !["FVI_storm_surge_2050s"] = Num(2),
                       !["FVI_storm_surge_2080s"] = Num(2),
                       !["FVI_tidal_2020s"] = NoneV,
                       !["FVI_tidal_2050s"] = NoneV,
                       !["FVI_tidal_2080s"] = NoneV,
                       !["FSHRI"] = Num(3)]

EmptyCrime == [key \in CrimeKeys |-> Absent]

CrimeValues == {Absent, NoneV, NanV, StrV, NumStr(1), InfV, NInfV, Ratio(1, 2),
                Num(BigSev)} \cup {Num(i) : i \in (0 - MaxSev)..MaxSev}

Crimes == [CrimeKeys -> CrimeValues]

PlutoNone == [kind |-> "none", error |-> FALSE, other |-> FALSE,
              yearbuilt |-> Absent, bldgclass |-> BcAbsent,
              assesstot |-> Absent, lotarea |-> Absent]

\* A dict with the four scored fields; other: it holds further keys.
PlutoDict(y, b, v, a) ==
    [kind |-> "dict", error |-> FALSE, other |-> FALSE,
     yearbuilt |-> y, bldgclass |-> b, assesstot |-> v, lotarea |-> a]

EmptyPluto == PlutoDict(Absent, BcAbsent, Absent, Absent)

YearValues == {Absent, NoneV, NanV, StrV, InfV, NInfV, NumStr(DEFAULT_YEARBUILT),
               Ratio(2 * DEFAULT_YEARBUILT + 1, 2)}
              \cup {Num(SCORING_YEAR - 10 * i) : i \in (0 - 1)..MaxDecades}

BcValues == {BcAbsent, BcNone, BcStr(<<>>), BcStr(<<" ">>), BcStr(<<"A", "9">>),
             BcStr(<<" ", "d", "1">>), BcStr(<<"u">>), BcStr(<<"Z", "9">>)}

AssessValues == {Absent, NoneV, NanV, StrV, InfV, NInfV, Num(0), Num(0 - 100),
                 Num(150), Num(500000)}

AreaValues == {Absent, NoneV, NanV, StrV, InfV, Num(0), Num(0 - 1), Num(2),
               Num(2000)}

\* Records that carry an "error" key, alone or beside scored fields.
ErrorPlutos == {[PlutoDict(y, BcAbsent, Absent, Absent) EXCEPT !.error = TRUE] :
                  y \in {Absent, Num(DEFAULT_YEARBUILT), InfV}}

\* A dict that holds only keys the scorer does not read.
OtherPluto == [EmptyPluto EXCEPT !.other = TRUE]

Plutos ==
    {PlutoNone, OtherPluto} \cup ErrorPlutos
    \cup {PlutoDict(y, b, v, a) : y \in YearValues, b \in BcValues,
                                  v \in AssessValues, a \in AreaValues}

Categories == {"FELONY", "MISDEMEANOR", "VIOLATION", "UNKNOWN", "PETIT",
               "felony", "None", "absent"}

Samples == UNION {[1..n -> Categories] : n \in 0..MaxRecs}

CrimeInfos == [data : Samples, area : (0..MaxArea) \cup {1000}]

NoTies == [flood |-> FALSE, property |-> FALSE, overall |-> FALSE]

PropertyTie(p) ==
    /\ ~NoRecord(p)
    /\ age_score(p).st = "ok"
    /\ IsTie(PropertyRaw(p))

\* BOOLEAN where the value handed to round() is an exact tie, FALSE otherwise.
Directions(tie) == IF tie THEN BOOLEAN ELSE {FALSE}

OverallTie(fl, cr, pl, a, b) ==
    LET s == compute_scores(fl, cr, pl, [flood |-> a, property |-> b, overall |-> FALSE])
    IN  s.st = "ok" /\ IsTie(OverallRaw(s.flood, s.crime, s.property))

\* The tie directions that matter to a run on these inputs: a direction is
\* drawn only where the value handed to round() is an exact tie.
Ties(fl, cr, pl) ==
    UNION {UNION {{[flood |-> a, property |-> b, overall |-> c] :
                      c \in Directions(OverallTie(fl, cr, pl, a, b))} :
                  b \in Directions(PropertyTie(pl))} :
           a \in Directions(IsTie(FloodRaw(fl)))}

\* The variables a specification does not exercise.
IdleScorers ==
    /\ floodRes = Pending /\ crimeRes = Pending /\ propRes = Pending
    /\ scores = NoBundle
IdleSeverity ==
    /\ crimeInfo = [data |-> <<>>, area |-> 1]
    /\ severity = Pending

\* A lattice point lies inside the polygon or not, and the incident data around
\* it is sparse, dense or cannot be fetched.
LatticePoints ==
    {[inside |-> TRUE, kind |-> k] : k \in {"sparse", "felonies", "violations", "fails"}}
    \cup {[inside |-> FALSE, kind |-> "felonies"]}

Lattices == UNION {[1..n -> LatticePoints] : n \in 0..MaxPoints}

\* The locals of sample_high_density_grid at the moment of the call.
NotSampled ==
    /\ pts = <<>> /\ idx = 0 /\ boroScores = <<>> /\ origin = <<>>
    /\ fetches = <<>> /\ warned = FALSE

\* sample_high_density_grid is not called.
NotCalled == [st |-> "idle", v |-> 0, exc |-> ""]

IdleSampler ==
    /\ borough = "Brooklyn" /\ required = 0 /\ lattice = <<>>
    /\ NotSampled /\ sampler = NotCalled

\* No request is made of the app and generate_risk_assessment is not called.
IdleApp ==
    /\ appPc = "idle" /\ shown = {} /\ fetched = {} /\ crimeTier = ""
    /\ apiKey = FALSE

IdleGenerate ==
    /\ docs = <<"", "">> /\ llm = <<"", "">>
    /\ genRes = <<GenPending, GenPending>>

\* The borough codes a caller may pass.
BoroughCodes == {"int", "float", "digits", "word", "none"}

\* What Nominatim does: the request fails, the status is an error, the body
\* is not JSON, the list is empty, the first result lacks lat or lon, or it
\* holds both.
Upstream1b == {"network", "http", "notjson", "empty", "malformed", "found"}

\* What Geosupport does: as above, a body that is no object, an empty
\* LGCsList, components that do not convert, no BBL at all, the three
\* components, or the flat field.
UpstreamBbl == {"network", "http", "notjson", "malformed", "nolgcs", "badparts",
                "nothing", "parts", "flat"}

Geocoders == {"geocode_address_1b", "geocode_to_bbl"}

\* No geocoder is called.
IdleGeo ==
    /\ geoCode = "int"
    /\ geoUp = [g \in Geocoders |-> "network"]
    /\ geoRes = [g \in Geocoders |-> [GeoPending EXCEPT !.st = "idle"]]

\* The answers of the API over the pages modelled.
Apis == [0..(MaxPages - 1) -> {HTTP_ERROR} \cup 0..MaxPageLen]

\* The locals of get_crime_data_api at the start of the loop.
LoopStart == offset = 0 /\ all_data = <<>> /\ requests = <<>>

\* get_crime_data_api is not called.
IdlePages ==
    /\ api = [i \in 0..(MaxPages - 1) |-> 0]
    /\ LoopStart /\ pager = NotCalled

\* The values a caller may pass for fshri and ss_2050.
ProfileValues ==
    {Absent, NoneV, NanV, StrV, InfV, NInfV, NumStr(3), Num(0 - 1), Num(BigSev)}
    \cup {Ratio(h, 2) : h \in 0..(2 * MaxLevel + 2)}

Profiles == [fshri : ProfileValues, ss_2050 : ProfileValues]

\* query_by_risk_profile is not called.
IdleQuery ==
    /\ profile = [fshri |-> Absent, ss_2050 |-> Absent]
    /\ n_results = 3
    /\ queryRes = [QueryPending EXCEPT !.st = "idle"]

\* _get_store is not called.
IdleStore ==
    /\ collection = 0 /\ tracts = 0
    /\ _store = "None" /\ ingestions = 0 /\ storeCalls = <<>>

IdleIo == IdleGeo /\ IdlePages /\ IdleQuery /\ IdleStore

\* What retrieval and the LLM call of one run may return.
DocOutcomes == {"raise", "tracts A", "tracts B"}
LlmOutcomes == {"raise", "text A", "text B"}

\* What the flood lookup returns for a geocoded address: a tract record, or
\* the dict without any FVI key when no tract matches.
AppFloods == {EmptyFlood, ExampleFlood, GroupFlood(Num(MaxLevel), Num(1), NanV)}

\* What the crime fetch around the address returns.
AppLocalKinds == {"felonies", "empty", "offshore", "fails"}

\* The lattice the baseline is sampled from.
\* The target the app passes (20), scaled to the size of the lattice.
AppRequired == MaxPoints

KindRank == [sparse |-> 1, felonies |-> 2, violations |-> 3, fails |-> 4]

\* The lattice the baseline is sampled from, up to the order of its points
\* (the shuffle of the sampler makes every order of them).
AppLattices ==
    {lat \in UNION {[1..n -> {[inside |-> TRUE, kind |-> k] : k \in DOMAIN KindRank}] :
                        n \in 0..MaxPoints} :
        \A i, j \in DOMAIN lat : i < j => KindRank[lat[i].kind] <= KindRank[lat[j].kind]}

\* What the PLUTO lookup returns: a record, or a dict with the key "error".
AppPlutos ==
    {[EmptyPluto EXCEPT !.error = TRUE],
     PlutoDict(NumStr(DEFAULT_YEARBUILT), BcStr(<<"A", "9">>), Num(500000), Num(2000)),
     PlutoDict(Num(SCORING_YEAR - 10 * MaxDecades), BcStr(<<"u">>), Num(150), Num(2))}

\* No scorer reads the clock; the specifications that do not vary the year run
\* in the year the age is counted from.
IdleClock == now = SCORING_YEAR

(***************************************************************************)
(* The calls                                                               *)
(***************************************************************************)
FloodScoreCall ==
    /\ floodRes.st = "pending"
    /\ floodRes' = Ok(_flood_score(flood, fp.flood))
    /\ UNCHANGED <<flood, crime, pluto, fp, crimeRes, propRes, scores,
                   crimeInfo, severity, others>>

CrimeScoreCall ==
    /\ crimeRes.st = "pending"
    /\ crimeRes' = _crime_score(crime)
    /\ UNCHANGED <<flood, crime, pluto, fp, floodRes, propRes, scores,
                   crimeInfo, severity, others>>

PropertyScoreCall ==
    /\ propRes.st = "pending"
    /\ propRes' = _property_score(pluto, fp.property)
    /\ UNCHANGED <<flood, crime, pluto, fp, floodRes, crimeRes, scores,
                   crimeInfo, severity, others>>

ComputeScoresCall ==
    /\ scores.st = "pending"
    /\ scores' = compute_scores(flood, crime, pluto, fp)
    /\ UNCHANGED <<flood, crime, pluto, fp, floodRes, crimeRes, propRes,
                   crimeInfo, severity, others>>

ScoreCrimeSeverityCall ==
    /\ severity.st = "pending"
    /\ severity' = score_crime_severity(crimeInfo)
    /\ UNCHANGED <<flood, crime, pluto, fp, floodRes, crimeRes, propRes,
                   scores, crimeInfo, others>>

\* sample_high_density_grid up to the loop: the borough is looked up, the
\* lattice points inside the polygon are listed and shuffled.
SamplerStart ==
    /\ sampler.st = "pending" /\ idx = 0
    /\ IF ~KnownBorough(borough)
       THEN /\ sampler' = Raise("ValueError")
            /\ UNCHANGED <<pts, idx>>
       ELSE /\ pts' \in Shuffles(Candidates(lattice))
            /\ idx' = 1
            /\ UNCHANGED sampler
    /\ UNCHANGED <<borough, required, lattice, boroScores, origin, fetches, warned>>
    /\ UNCHANGED notSampler

\* One pass of the loop body: the candidate is fetched, and its severity is
\* appended unless the local sample is below the threshold.  An exception of
\* the fetch or of the scoring escapes the function.
SamplerIterate ==
    /\ sampler.st = "pending" /\ idx >= 1
    /\ ~Exhausted(idx, pts) /\ ~Enough(boroScores, required)
    /\ LET p    == pts[idx]
           info == get_crime_data_api(lattice[p].kind)
           sev  == LocalSeverity[lattice[p].kind]
       IN  /\ fetches' = Append(fetches, p)
           /\ IF info.st = "raise"
              THEN /\ sampler' = Raise(info.exc)
                   /\ UNCHANGED <<idx, boroScores, origin>>
              ELSE IF ~Dense(info.v)
              THEN /\ idx' = idx + 1
                   /\ UNCHANGED <<sampler, boroScores, origin>>
              ELSE IF sev.st = "raise"
              THEN /\ sampler' = Raise(sev.exc)
                   /\ UNCHANGED <<idx, boroScores, origin>>
              ELSE /\ boroScores' = Append(boroScores, sev.v)
                   /\ origin' = Append(origin, p)
                   /\ idx' = idx + 1
                   /\ UNCHANGED sampler
    /\ UNCHANGED <<borough, required, lattice, pts, warned>>
    /\ UNCHANGED notSampler

\* The loop ends, by break or at the end of the list; the warning is printed
\* if the target was missed, and the array of boroScores is returned.
SamplerFinish ==
    /\ sampler.st = "pending" /\ idx >= 1
    /\ Exhausted(idx, pts) \/ Enough(boroScores, required)
    /\ warned' = (Len(boroScores) < required)
    /\ sampler' = Ok(Len(boroScores))
    /\ UNCHANGED <<borough, required, lattice, pts, idx, boroScores, origin, fetches>>
    /\ UNCHANGED notSampler

\* app.py, the flood column: the address is geocoded and its tract looked up.
\* A dict with the key "error" (the geocoder failed or found nothing) is
\* reported and st.stop() ends the request.
FloodColumn ==
    /\ appPc = "flood"
    /\ fetched' = fetched \cup {"flood"}
    /\ \E geocoded \in BOOLEAN :
          IF ~geocoded
          THEN /\ shown' = shown \cup {"flood error"}
               /\ appPc' = "stopped"
               /\ UNCHANGED flood
          ELSE /\ flood' \in AppFloods
               /\ shown' = shown \cup {"flood"}
               /\ appPc' = "crime"
    /\ UNCHANGED <<crime, pluto, fp, floodRes, crimeRes, propRes, scores,
                   crimeInfo, severity, now, samplerVars, crimeTier, apiKey, genVars,
                   ioVars>>

\* app.py, the crime column up to the call of sample_high_density_grid: the
\* address is geocoded again, the incidents around it are fetched and scored.
\* Without coordinates, or on any exception, the crime dict holds None.
CrimeFetch ==
    /\ appPc = "crime"
    /\ fetched' = fetched \cup {"crime"}
    /\ \E geocoded \in BOOLEAN, kind \in AppLocalKinds, lat \in AppLattices :
          LET info == get_crime_data_api(kind)
              sev  == IF info.st = "ok" THEN LocalSeverity[kind] ELSE info
          IN  IF ~geocoded
              THEN /\ crime' = UnavailableCrime
                   /\ crimeTier' = crime_tier(UnavailableCrime)
                   /\ shown' = shown \cup {"crime unavailable"}
                   /\ appPc' = "pluto"
                   /\ UNCHANGED <<crimeInfo, severity, samplerVars>>
              ELSE IF info.st = "raise"
              THEN /\ crime' = UnavailableCrime
                   /\ crimeTier' = crime_tier(UnavailableCrime)
                   /\ shown' = shown \cup {"crime warning", "crime unavailable"}
                   /\ appPc' = "pluto"
                   /\ UNCHANGED <<crimeInfo, severity, samplerVars>>
              ELSE IF sev.st = "raise"
              THEN /\ crime' = UnavailableCrime
                   /\ crimeTier' = crime_tier(UnavailableCrime)
                   /\ shown' = shown \cup {"crime warning", "crime unavailable"}
                   /\ appPc' = "pluto"
                   /\ crimeInfo' = info.v
                   /\ UNCHANGED <<severity, samplerVars>>
              ELSE /\ crimeInfo' = info.v
                   /\ severity' = sev
                   /\ borough' = "BROOKLYN" /\ required' = AppRequired
                   /\ lattice' = lat
                   /\ sampler' = Pending
                   /\ appPc' = "sampling"
                   /\ UNCHANGED <<crime, crimeTier, shown, pts, idx, boroScores,
                                   origin, fetches, warned>>
    /\ UNCHANGED <<flood, pluto, fp, floodRes, crimeRes, propRes, scores, now,
                   apiKey, genVars,
                   ioVars>>

\* app.py, the crime column after sample_high_density_grid: the baseline is
\* taken from the returned array, or the exception of the call is caught; the
\* column is rendered.  The locals of the finished call are gone.
BaselineCall ==
    /\ appPc = "sampling" /\ sampler.st \in {"ok", "raise"}
    /\ IF sampler.st = "raise"
       THEN /\ crime' = UnavailableCrime
            /\ shown' = shown \cup {"crime warning", "crime unavailable"}
       ELSE /\ crime' = Baseline(severity.v, boroScores)
            /\ shown' = shown \cup {"crime"}
    /\ crimeTier' = crime_tier(crime')
    /\ appPc' = "pluto"
    /\ lattice' = <<>> /\ pts' = <<>> /\ idx' = 0 /\ origin' = <<>> /\ fetches' = <<>>
    /\ UNCHANGED <<flood, pluto, fp, floodRes, crimeRes, propRes, scores, crimeInfo,
                   severity, now, borough, required, boroScores, warned, sampler,
                   fetched, apiKey, genVars,
                   ioVars>>

\* app.py, the property column: a dict with the key "error" is reported as
\* not found and replaced by None.
PlutoColumn ==
    /\ appPc = "pluto"
    /\ fetched' = fetched \cup {"pluto"}
    /\ \E rec \in AppPlutos :
          IF rec.error
          THEN pluto' = PlutoNone /\ shown' = shown \cup {"pluto not found"}
          ELSE pluto' = rec /\ shown' = shown \cup {"pluto"}
    /\ appPc' = "generate"
    /\ UNCHANGED <<flood, crime, fp, floodRes, crimeRes, propRes, scores, crimeInfo,
                   severity, now, samplerVars, crimeTier, apiKey, genVars,
                   ioVars>>

\* app.py, the generation: without the API key only a warning is shown; with
\* it generate_risk_assessment is called.  What retrieval and the LLM will
\* answer, and which way the ties round, is fixed here.
GenerateStep ==
    /\ appPc = "generate"
    /\ IF ~apiKey
       THEN /\ shown' = shown \cup {"key warning"}
            /\ appPc' = "end"
            /\ UNCHANGED <<fp, docs, llm>>
       ELSE /\ fp' \in Ties(_sanitize(flood), _sanitize(crime), pluto)
            /\ \E d \in DocOutcomes : docs' = [docs EXCEPT ![1] = d]
            /\ \E l \in LlmOutcomes : llm' = [llm EXCEPT ![1] = l]
            /\ appPc' = "generating"
            /\ UNCHANGED shown
    /\ UNCHANGED <<flood, crime, pluto, floodRes, crimeRes, propRes, scores,
                   crimeInfo, severity, now, samplerVars, fetched, crimeTier, apiKey,
                   genRes, ioVars>>

\* One run of generate_risk_assessment on the inputs of the state: called on
\* its own, or as the first run by the app.
GenerateCall(run) ==
    /\ genRes[run].st = "pending"
    /\ appPc = "idle" \/ (appPc = "generating" /\ run = 1)
    /\ genRes' = [genRes EXCEPT
                    ![run] = generate_risk_assessment(flood, crime, pluto, fp,
                                                      docs[run], llm[run])]
    /\ flood' = AfterSanitize(flood) /\ crime' = AfterSanitize(crime)
    /\ UNCHANGED <<pluto, fp, floodRes, crimeRes, propRes, scores, crimeInfo,
                   severity>>
    /\ UNCHANGED <<now, samplerVars, appVars, docs, llm, ioVars>>

\* app.py after the call: the four scores and the narrative are shown if it
\* returned, the error and the traceback if it raised.
GenerationShown ==
    /\ appPc = "generating" /\ genRes[1].st # "pending"
    /\ shown' = shown \cup (IF genRes[1].st = "ok" THEN {"scores", "narrative"}
                            ELSE {"generation error"})
    /\ appPc' = "end"
    /\ UNCHANGED <<scoreVars, now, samplerVars, fetched, crimeTier, apiKey, genVars,
                   ioVars>>

\* One pass of the while loop of get_crime_data_api: the page at offset is
\* requested with the limit API_LIMIT; an error status raises, an empty page
\* breaks, any other page is appended and the offset advanced.  The pass is
\* modelled for the first MaxPages pages.
PageRequest ==
    /\ pager.st = "pending" /\ offset < MaxPages * API_LIMIT
    /\ LET answer == api[offset \div API_LIMIT]
           chunk  == Page(offset \div API_LIMIT, answer)
       IN  /\ requests' = Append(requests, [offset |-> offset, limit |-> API_LIMIT])
           /\ IF answer = HTTP_ERROR
              THEN pager' = Raise("HTTPError") /\ UNCHANGED <<offset, all_data>>
              ELSE IF Stops(chunk, MaxPageLen)
              THEN pager' = Ok(Len(all_data)) /\ UNCHANGED <<offset, all_data>>
              ELSE /\ all_data' = all_data \o chunk
                   /\ offset' = NextOffset(offset)
                   /\ UNCHANGED pager
    /\ UNCHANGED <<scoreVars, now, samplerVars, appVars, genVars, geoVars, api,
                   queryVars, storeVars>>

\* A call of query_by_risk_profile.
QueryCall ==
    /\ queryRes.st = "pending"
    /\ queryRes' = query_by_risk_profile(profile.fshri, profile.ss_2050,
                                         n_results, collection)
    /\ UNCHANGED <<scoreVars, now, samplerVars, appVars, genVars, geoVars, pageVars,
                   profile, n_results, storeVars>>

\* A call of _get_store.  The first call constructs the store and binds
\* _store to it before it looks at the collection; an empty collection is
\* ingested, and ingest_fvi_data either upserts every tract or raises after
\* some of them (none, if the source files cannot be read).  With _store
\* bound, the call returns it as it is.
GetStoreCall ==
    /\ Len(storeCalls) < MaxCalls
    /\ IF HasStore(_store)
       THEN /\ storeCalls' = Append(storeCalls, Returned(collection))
            /\ UNCHANGED <<collection, _store, ingestions>>
       ELSE \E constructed \in BOOLEAN :
              IF ~constructed
              THEN /\ storeCalls' = Append(storeCalls, Failed("constructor", collection))
                   /\ UNCHANGED <<collection, _store, ingestions>>
              ELSE /\ _store' = "store"
                   /\ IF collection # 0
                      THEN /\ storeCalls' = Append(storeCalls, Returned(collection))
                           /\ UNCHANGED <<collection, ingestions>>
                      ELSE \E upserted \in 0..tracts :
                             /\ collection' = upserted
                             /\ \/ /\ upserted = tracts
                                   /\ ingestions' = ingestions + 1
                                   /\ storeCalls' = Append(storeCalls, Returned(upserted))
                                \/ /\ upserted < tracts
                                   /\ storeCalls' =
                                         Append(storeCalls, Failed("ingestion", upserted))
                                   /\ UNCHANGED ingestions
    /\ UNCHANGED <<scoreVars, now, samplerVars, appVars, genVars, geoVars, pageVars,
                   queryVars, tracts>>

\* A call of one of the two geocoders.
GeocodeCall(g) ==
    /\ geoRes[g].st = "pending"
    /\ geoRes' = [geoRes EXCEPT
                    ![g] = IF g = "geocode_address_1b"
                           THEN geocode_address_1b(geoCode, geoUp[g])
                           ELSE geocode_to_bbl(geoCode, geoUp[g])]
    /\ UNCHANGED <<scoreVars, now, samplerVars, appVars, genVars, geoCode, geoUp,
                   pageVars, queryVars, storeVars>>

(***************************************************************************)
(* Specifications: one per operation, over that operation's inputs         *)
(***************************************************************************)
InitFlood ==
    /\ flood \in ScaleFloods \cup MissingFloods \cup OddFloods
    /\ crime = EmptyCrime /\ pluto = PlutoNone
    /\ fp \in {[NoTies EXCEPT !.flood = a] : a \in Directions(IsTie(FloodRaw(flood)))}
    /\ IdleScorers /\ IdleSeverity
    /\ IdleClock
    /\ IdleSampler
    /\ IdleApp /\ IdleGenerate
    /\ IdleIo

SpecFlood == InitFlood /\ [][FloodScoreCall]_vars

InitCrime ==
    /\ crime \in Crimes
    /\ flood = EmptyFlood /\ pluto = PlutoNone
    /\ fp = NoTies
    /\ IdleScorers /\ IdleSeverity
    /\ IdleClock
    /\ IdleSampler
    /\ IdleApp /\ IdleGenerate
    /\ IdleIo

SpecCrime == InitCrime /\ [][CrimeScoreCall]_vars

InitProperty ==
    /\ pluto \in Plutos
    /\ flood = EmptyFlood /\ crime = EmptyCrime
    /\ fp \in {[NoTies EXCEPT !.property = b] : b \in Directions(PropertyTie(pluto))}
    /\ IdleScorers /\ IdleSeverity
    /\ now \in SCORING_YEAR..(SCORING_YEAR + MaxYearsOn)
    /\ IdleSampler
    /\ IdleApp /\ IdleGenerate
    /\ IdleIo

SpecProperty == InitProperty /\ [][PropertyScoreCall]_vars

InitSeverity ==
    /\ crimeInfo \in CrimeInfos
    /\ severity = Pending
    /\ flood = EmptyFlood /\ crime = EmptyCrime /\ pluto = PlutoNone
    /\ fp = NoTies
    /\ IdleScorers
    /\ IdleClock
    /\ IdleSampler
    /\ IdleApp /\ IdleGenerate
    /\ IdleIo

SpecSeverity == InitSeverity /\ [][ScoreCrimeSeverityCall]_vars

\* sample_high_density_grid over every lattice and target, and on a borough
\* name that is not one of the five.
InitSampler ==
    /\ \/ borough = "Brooklyn" /\ lattice \in Lattices /\ required \in 0..MaxRequired
       \/ borough = "Gotham" /\ lattice \in [1..1 -> LatticePoints]
                             /\ required = MaxRequired
    /\ NotSampled /\ sampler = Pending
    /\ flood = EmptyFlood /\ crime = EmptyCrime /\ pluto = PlutoNone
    /\ fp = NoTies
    /\ IdleScorers /\ IdleSeverity
    /\ IdleClock
    /\ IdleApp /\ IdleGenerate
    /\ IdleIo

NextSampler == SamplerStart \/ SamplerIterate \/ SamplerFinish

SpecSampler == InitSampler /\ [][NextSampler]_vars

\* The function runs to its end: every step that can be taken is taken, each
\* fetch returning its data or its error.
SpecSamplerFair == SpecSampler /\ WF_vars(NextSampler)

\* A request of the app, from the click to the end of the page.
InitApp ==
    /\ appPc = "flood" /\ shown = {} /\ fetched = {} /\ crimeTier = ""
    /\ apiKey \in BOOLEAN
    /\ flood = EmptyFlood /\ crime = EmptyCrime /\ pluto = PlutoNone
    /\ fp = NoTies
    /\ IdleScorers /\ IdleSeverity
    /\ IdleClock
    /\ IdleSampler
    /\ IdleGenerate
    /\ IdleIo

NextApp ==
    \/ FloodColumn
    \/ CrimeFetch
    \/ SamplerStart
    \/ SamplerIterate
    \/ SamplerFinish
    \/ BaselineCall
    \/ PlutoColumn
    \/ GenerateStep
    \/ GenerateCall(1)
    \/ GenerationShown

SpecApp == InitApp /\ [][NextApp]_vars

\* Two runs of generate_risk_assessment on the same inputs, each with its own
\* retrieved documents and its own response of the LLM.
GenFloods == {EmptyFlood, ExampleFlood, GroupFlood(NanV, Num(2), Num(FVI_MAX)),
              GroupFlood(Num(1), NoneV, InfV)}

GenCrimes ==
    {UnavailableCrime,
     [UnavailableCrime EXCEPT !["severity_score"] = Num(1), !["mean"] = Num(2),
                              !["std"] = NanV]}
    \cup {Baseline(Fin(sev, 1), xs) :
            sev \in {0, MaxSev}, xs \in {<<>>, <<Fin(3, 1), Fin(2, 1)>>}}

InitGenerate ==
    /\ flood \in GenFloods
    /\ crime \in GenCrimes
    /\ pluto \in {PlutoNone} \cup {p \in AppPlutos : ~p.error}
    /\ fp \in Ties(_sanitize(flood), _sanitize(crime), pluto)
    /\ docs \in DocOutcomes \X DocOutcomes
    /\ llm \in LlmOutcomes \X LlmOutcomes
    /\ genRes = <<GenPending, GenPending>>
    /\ IdleScorers /\ IdleSeverity
    /\ IdleClock
    /\ IdleSampler
    /\ IdleApp
    /\ IdleIo

NextGenerate == \E run \in 1..2 : GenerateCall(run)

SpecGenerate == InitGenerate /\ [][NextGenerate]_vars

\* The paging loop over every behaviour of the API on the first pages.
InitPages ==
    /\ api \in Apis
    /\ LoopStart /\ pager = Pending
    /\ flood = EmptyFlood /\ crime = EmptyCrime /\ pluto = PlutoNone
    /\ fp = NoTies
    /\ IdleScorers /\ IdleSeverity
    /\ IdleClock
    /\ IdleSampler
    /\ IdleApp /\ IdleGenerate
    /\ IdleGeo /\ IdleQuery /\ IdleStore

NextPages == PageRequest

SpecPages == InitPages /\ [][NextPages]_vars

\* The requests are issued one after the other for as long as the loop runs.
SpecPagesFair == SpecPages /\ WF_vars(PageRequest)

\* query_by_risk_profile over the values of the two arguments, the numbers
\* of results asked for and the sizes of the collection.
InitQuery ==
    /\ profile \in Profiles
    /\ n_results \in 1..MaxResults
    /\ collection \in 0..MaxDocs
    /\ tracts = collection
    /\ _store = "store" /\ ingestions = 0 /\ storeCalls = <<>>
    /\ queryRes = QueryPending
    /\ flood = EmptyFlood /\ crime = EmptyCrime /\ pluto = PlutoNone
    /\ fp = NoTies
    /\ IdleScorers /\ IdleSeverity
    /\ IdleClock
    /\ IdleSampler
    /\ IdleApp /\ IdleGenerate
    /\ IdleGeo /\ IdlePages

NextQuery == QueryCall

SpecQuery == InitQuery /\ [][NextQuery]_vars

\* A process that calls _get_store several times, over a collection left by
\* earlier processes (maybe by one that was interrupted while ingesting).
InitStore ==
    /\ tracts \in 0..MaxDocs
    /\ collection \in 0..tracts
    /\ _store = "None" /\ ingestions = 0 /\ storeCalls = <<>>
    /\ flood = EmptyFlood /\ crime = EmptyCrime /\ pluto = PlutoNone
    /\ fp = NoTies
    /\ IdleScorers /\ IdleSeverity
    /\ IdleClock
    /\ IdleSampler
    /\ IdleApp /\ IdleGenerate
    /\ IdleGeo /\ IdlePages /\ IdleQuery

NextStore == GetStoreCall

SpecStore == InitStore /\ [][NextStore]_vars

\* The two geocoders, each called once on the same address.
InitGeocode ==
    /\ geoCode \in BoroughCodes
    /\ geoUp \in {[geocode_address_1b |-> a, geocode_to_bbl |-> b] :
                     a \in Upstream1b, b \in UpstreamBbl}
    /\ geoRes = [g \in Geocoders |-> GeoPending]
    /\ flood = EmptyFlood /\ crime = EmptyCrime /\ pluto = PlutoNone
    /\ fp = NoTies
    /\ IdleScorers /\ IdleSeverity
    /\ IdleClock
    /\ IdleSampler
    /\ IdleApp /\ IdleGenerate
    /\ IdlePages /\ IdleQuery /\ IdleStore

NextGeocode == \E g \in Geocoders : GeocodeCall(g)

SpecGeocode == InitGeocode /\ [][NextGeocode]_vars

\* compute_scores and generate_risk_assessment called on the same arguments.
NextFrame == ComputeScoresCall \/ NextGenerate

SpecFrame == InitGenerate /\ [][NextFrame]_vars

\* compute_scores over combinations of the three inputs.
SomeFloods ==
    {EmptyFlood, ExampleFlood, GroupFlood(InfV, NInfV, NoneV),
     GroupFlood(NoneV, Num(2), Num(FVI_MAX))}
    \cup {GroupFlood(Num(i), Num(1), Num(i)) : i \in 1..MaxLevel}

SomeCrimes == [CrimeKeys -> {Absent, Num(0), Num(1), Num(2), Num(BigSev)}]

SomePlutos ==
    {PlutoNone, EmptyPluto, OtherPluto}
    \cup {PlutoDict(y, BcStr(<<"A", "9">>), Num(150), a) :
            y \in {NoneV, InfV, Num(DEFAULT_YEARBUILT), Num(SCORING_YEAR - 10 * MaxDecades)},
            a \in {Num(0), Num(2)}}

Init ==
    /\ flood \in SomeFloods
    /\ crime \in SomeCrimes
    /\ pluto \in SomePlutos
    /\ fp \in Ties(flood, crime, pluto)
    /\ IdleScorers /\ IdleSeverity
    /\ IdleClock
    /\ IdleSampler
    /\ IdleApp /\ IdleGenerate
    /\ IdleIo

Next == ComputeScoresCall

Spec == Init /\ [][Next]_vars

\* The three scorers called side by side, on missing and on ordinary inputs.
GroupMissingFloods ==
    {GroupFlood(s, t, h) : s \in {Absent, NoneV, NanV}, t \in {Absent, NoneV, NanV},
                           h \in {Absent, NoneV, NanV}}

FewCrimes ==
    {EmptyCrime,
     [EmptyCrime EXCEPT !["severity_score"] = Num(1), !["mean"] = Num(2), !["std"] = Num(1)],
     [EmptyCrime EXCEPT !["severity_score"] = Num(0), !["mean"] = Num(BigSev), !["std"] = Num(1)],
     [EmptyCrime EXCEPT !["severity_score"] = Num(0), !["mean"] = Num(BigSev), !["std"] = Num(0)]}

FewPlutos ==
    {PlutoNone, EmptyPluto, OtherPluto} \cup ErrorPlutos
    \cup {PlutoDict(y, BcStr(<<"A", "9">>), Num(500000), Num(2000)) :
            y \in {StrV, InfV, Num(DEFAULT_YEARBUILT)}}

InitScorers ==
    /\ flood \in GroupMissingFloods \cup SomeFloods
    /\ crime \in FewCrimes
    /\ pluto \in FewPlutos
    /\ fp \in {[flood |-> a, property |-> b, overall |-> FALSE] :
                 a \in Directions(IsTie(FloodRaw(flood))),
                 b \in Directions(PropertyTie(pluto))}
    /\ IdleScorers /\ IdleSeverity
    /\ IdleClock
    /\ IdleSampler
    /\ IdleApp /\ IdleGenerate
    /\ IdleIo

NextScorers == FloodScoreCall \/ CrimeScoreCall \/ PropertyScoreCall

SpecScorers == InitScorers /\ [][NextScorers]_vars

(***************************************************************************)
(* Properties                                                              *)
(***************************************************************************)
\* A field holds no usable number: absent, None, NaN or unparseable.
Missing(v) == v.k \in {"absent", "none", "nan", "str"}

\* A field holds a finite number.
Finite(v) == v.k \in {"num", "numstr"}

\* A field holds a value of the FVI scale [1, 5].
OnScale(v) == v.k = "num" /\ v.d <= v.n /\ v.n <= FVI_MAX * v.d

IsScore(r) == r.st = "ok" /\ r.v \in 0..100

\* C1: every call of _flood_score, _crime_score and _property_score returns an
\* integer between 0 and 100, whatever the input.
C1_ScorersReturnScore ==
    /\ floodRes.st # "pending" => IsScore(floodRes)
    /\ crimeRes.st # "pending" => IsScore(crimeRes)
    /\ propRes.st # "pending" => IsScore(propRes)

\* C2: in every bundle compute_scores returns, overall is the integer nearest to
\* 0.40 * flood + 0.35 * crime + 0.25 * property of that same bundle, and lies
\* in 0..100.
C2_OverallDerived ==
    scores.st = "ok" =>
        /\ scores.overall \in 0..100
        /\ 2 * Abs(100 * scores.overall
                   - (40 * scores.flood + 35 * scores.crime + 25 * scores.property))
             <= 100

\* A bundle whose three sub-scores differ pairwise, so that the weights show.
C2_Witness ==
    /\ scores.st = "ok"
    /\ scores.flood # scores.crime
    /\ scores.crime # scores.property
    /\ scores.flood # scores.property

\* C3: compute_scores on an empty flood dict, an empty crime dict and no property
\* record returns flood 50, crime 50, property 50, overall 50.
C3_EmptyInputsNeutral ==
    (/\ scores.st # "pending"
     /\ flood = EmptyFlood /\ crime = EmptyCrime
     /\ pluto \in {PlutoNone, EmptyPluto})
    => /\ scores.st = "ok"
       /\ scores.flood = 50 /\ scores.crime = 50
       /\ scores.property = 50 /\ scores.overall = 50

C3_Witness ==
    /\ scores.st = "ok"
    /\ flood = EmptyFlood /\ crime = EmptyCrime /\ pluto = PlutoNone

\* C4: compute_scores returns a bundle and never raises, whatever the fields hold.
C4_ComputeScoresNeverRaises == scores.st # "raise"

\* C5: on a complete flood record with every component in [1, 5], raising one
\* component by a level of the scale never lowers _flood_score (and so, step by
\* step, neither does any larger raise).
Complete(f) == \A key \in FloodKeys : OnScale(f[key])

Raised(f, key) == [f EXCEPT ![key] = Ratio(f[key].n + f[key].d, f[key].d)]

C5_FloodMonotone ==
    (floodRes.st = "ok" /\ Complete(flood)) =>
        \A key \in FloodKeys : \A up \in BOOLEAN :
            OnScale(Raised(flood, key)[key])
            => _flood_score(Raised(flood, key), up) >= floodRes.v

\* A complete record scored, one of whose components can be raised to a
\* strictly higher score.
C5_Witness ==
    /\ floodRes.st = "ok" /\ Complete(flood)
    /\ \E key \in FloodKeys :
          /\ OnScale(Raised(flood, key)[key])
          /\ _flood_score(Raised(flood, key), FALSE) > floodRes.v

\* C6: with any subset of the components missing and at least one present,
\* _flood_score is the integer nearest to clamp((combined - 1) / 4 * 100, 0, 100),
\* where every average is taken over the weights of the components present:
\* surge {2, 5, 3}/10, tidal the plain mean, combined {4, 3, 3}/10.  The record
\* {surge 2050s = 2, surge 2080s = 2, FSHRI = 3} scores 36.
W(v, weight) == IF Finite(v) THEN weight ELSE 0

C6_Renormalised ==
    LET sp == flood["FVI_storm_surge_present"]
        s5 == flood["FVI_storm_surge_2050s"]
        s8 == flood["FVI_storm_surge_2080s"]
        t2 == flood["FVI_tidal_2020s"]
        t5 == flood["FVI_tidal_2050s"]
        t8 == flood["FVI_tidal_2080s"]
        h  == flood["FSHRI"]
        \* surge = sn / sw, tidal = tn / tw (sw, tw = 0: the composite is missing)
        sn == W(sp, 2) * sp.n + W(s5, 5) * s5.n + W(s8, 3) * s8.n
        sw == W(sp, 2) + W(s5, 5) + W(s8, 3)
        tn == W(t2, 1) * t2.n + W(t5, 1) * t5.n + W(t8, 1) * t8.n
        tw == W(t2, 1) + W(t5, 1) + W(t8, 1)
        sd == IF sw = 0 THEN 1 ELSE sw
        td == IF tw = 0 THEN 1 ELSE tw
        \* combined = cn / cd
        cn == 4 * sn * td + 3 * tn * sd + W(h, 3) * h.n * sd * td
        cd == sd * td * ((IF sw = 0 THEN 0 ELSE 4) + (IF tw = 0 THEN 0 ELSE 3) + W(h, 3))
        \* (combined - 1) / 4 * 100 = xn / cd
        xn == 25 * (cn - cd)
    IN  /\ (/\ floodRes.st # "pending"
            /\ \A key \in FloodKeys :
                   Missing(flood[key]) \/ (Finite(flood[key]) /\ flood[key].d = 1)
            /\ \E key \in FloodKeys : Finite(flood[key]))
           => /\ floodRes.st = "ok"
              /\ IF xn < 0 THEN floodRes.v = 0
                 ELSE IF xn > 100 * cd THEN floodRes.v = 100
                 ELSE 2 * Abs(floodRes.v * cd - xn) <= cd
        /\ (floodRes.st # "pending" /\ flood = ExampleFlood) => floodRes.v = 36

C6_Witness == floodRes.st = "ok" /\ flood = ExampleFlood /\ floodRes.v = 36

\* C7: _flood_score returns 50 when all seven components are absent, None or
\* NaN, and _property_score returns 50 when the record is None, empty or
\* carries an "error" key.
C7_NeutralWhenMissing ==
    /\ (/\ floodRes.st # "pending"
        /\ \A key \in FloodKeys : flood[key].k \in {"absent", "none", "nan"})
       => floodRes = Ok(50)
    /\ (/\ propRes.st # "pending"
        /\ (pluto.kind = "none" \/ pluto = EmptyPluto \/ pluto.error))
       => propRes = Ok(50)

\* Both scorers have answered on missing inputs of different forms: a flood
\* record mixing None and NaN, and an error record that carries a year.
C7_Witness ==
    /\ floodRes.st = "ok" /\ propRes.st = "ok"
    /\ flood = GroupFlood(NoneV, NanV, Absent)
    /\ pluto.error /\ pluto.yearbuilt = InfV

\* C8: _crime_score returns 50 whenever severity_score, mean or std is missing,
\* whatever the other two hold.
C8_CrimeNeutralIfAnyMissing ==
    (/\ crimeRes.st # "pending"
     /\ \E key \in CrimeKeys : Missing(crime[key]))
    => crimeRes = Ok(50)

\* Only std is missing, beside a severity and a mean that are far apart.
C8_Witness ==
    /\ crimeRes.st = "ok"
    /\ crime["severity_score"] = Num(0) /\ crime["mean"] = Num(BigSev)
    /\ crime["std"] = NanV

\* C9: with std zero _crime_score does not divide: it returns the score of
\* z = 0, which is 39, for every severity and mean; with std non-zero it scores
\* z = (severity - mean) / std.
Present(v) == ~Missing(v)

C9_ZeroStdGuard ==
    (/\ crimeRes.st # "pending"
     /\ \A key \in CrimeKeys : Present(crime[key]))
    => LET sev  == crime["severity_score"]
           mean == crime["mean"]
           std  == crime["std"]
       IN  /\ (Finite(std) /\ std.n = 0) => crimeRes = Ok(39)
           /\ (Finite(std) /\ std.n # 0 /\ Finite(sev) /\ Finite(mean))
              => crimeRes = Sigmoid(Fin((sev.n * mean.d - mean.n * sev.d) * std.d,
                                        sev.d * mean.d * std.n))

\* std is zero while severity and mean are as far apart as the inputs allow.
C9_Witness ==
    /\ crimeRes.st = "ok"
    /\ crime["std"] = Num(0)
    /\ crime["severity_score"] = Num(0) /\ crime["mean"] = Num(BigSev)

\* C10: score_crime_severity returns (sum of the category weights) / area * 1000
\* with FELONY 3, MISDEMEANOR 2, VIOLATION 1 and every unknown, missing or None
\* category 0; {FELONY, VIOLATION, unknown} over area 1000 gives 4.
Count(data, cat) == Cardinality({i \in DOMAIN data : data[i] = cat})

C10_SeverityFormula ==
    (severity.st # "pending" /\ crimeInfo.area > 0)
    => /\ severity.st = "ok"
       /\ severity.v.c = "fin"
       /\ severity.v.n * crimeInfo.area
            = 1000 * severity.v.d * (3 * Count(crimeInfo.data, "FELONY")
                                     + 2 * Count(crimeInfo.data, "MISDEMEANOR")
                                     + Count(crimeInfo.data, "VIOLATION"))

C10_Witness ==
    /\ severity.st = "ok"
    /\ crimeInfo = [data |-> <<"FELONY", "VIOLATION", "PETIT">>, area |-> 1000]
    /\ severity.v = Fin(4, 1)

\* A record with every scored field in its ordinary form: a whole year, any
\* building class, a non-negative assessed value and a positive lot area.
WholeNumber(v) == Finite(v) /\ v.d = 1

WellFormed(p) ==
    /\ ~NoRecord(p)
    /\ WholeNumber(p.yearbuilt)
    /\ WholeNumber(p.assesstot) /\ p.assesstot.n >= 0
    /\ WholeNumber(p.lotarea) /\ p.lotarea.n > 0

\* C11: for a well-formed record, in whatever year it is evaluated,
\* _property_score is the integer nearest to
\* clamp(0.40 * age_score + 0.30 * class_score + 0.30 * value_score, 0, 100) with
\* age = current year - year built, age_score = clamp((age - 10) / 90 * 100),
\* class_score the table entry of the class's first letter (40 by default) and
\* value_score = clamp(100 - assessed value / lot area).
C11_PropertyFormula ==
    (propRes.st # "pending" /\ WellFormed(pluto)) =>
        LET age  == now - pluto.yearbuilt.n
            \* age_score = an / 9
            an   == Least(900, Most(0, 10 * (age - 10)))
            cls  == class_score(pluto.bldgclass)
            area == pluto.lotarea.n
            \* value_score = vn / area
            vn   == Least(100 * area, Most(0, 100 * area - pluto.assesstot.n))
            num  == 4 * an * area + 27 * cls * area + 27 * vn
            den  == 90 * area
        IN  /\ propRes.st = "ok"
            /\ 2 * Abs(propRes.v * den - num) <= den

\* The same statement with the age counted from SCORING_YEAR, as the code does.
C11_FormulaInScoringYear == (now = SCORING_YEAR) => C11_PropertyFormula

\* The blend with a given age component, in either direction of a tie.
Blends(p, age) ==
    LET raw == Clamp(XAdd(XAdd(XMul(Fin(40, 100), age),
                               XMul(Fin(30, 100), Fin(class_score(p.bldgclass), 1))),
                          XMul(Fin(30, 100), value_score(p))))
    IN  {Round(raw, up) : up \in BOOLEAN}

\* C12: when yearbuilt is a non-numeric string, None, NaN, infinite or absent,
\* _property_score does not raise and blends an age_score of exactly 40.
Unparsed(v) == v.k \in {"str", "none", "nan", "inf", "ninf", "absent"}

C12_YearFallback ==
    (propRes.st # "pending" /\ ~NoRecord(pluto) /\ Unparsed(pluto.yearbuilt)) =>
        /\ propRes.st = "ok"
        /\ propRes.v \in Blends(pluto, Fin(40, 1))

\* The part of C12 the code keeps: a string, None or NaN gives age_score 40.
C12_CaughtYearFallback ==
    (/\ propRes.st # "pending" /\ ~NoRecord(pluto)
     /\ pluto.yearbuilt.k \in {"str", "none", "nan"}) =>
        /\ propRes.st = "ok"
        /\ propRes.v \in Blends(pluto, Fin(40, 1))

\* C13: when lotarea is zero, negative, None, NaN or absent, the value component
\* is 100 for every assessed value that is a number (or absent or None), and no
\* division by the lot area takes place: the score is the blend of the age
\* component, the class component and 100.
NoArea(v) ==
    \/ v.k \in {"absent", "none", "nan"}
    \/ (Finite(v) /\ v.n <= 0)

C13_NoAreaFullValueRisk ==
    (/\ propRes.st # "pending" /\ ~NoRecord(pluto)
     /\ NoArea(pluto.lotarea) /\ pluto.assesstot.k # "str"
     /\ age_score(pluto).st = "ok") =>
        LET raw == Clamp(XAdd(XAdd(XMul(Fin(40, 100), age_score(pluto).v),
                                   XMul(Fin(30, 100),
                                        Fin(class_score(pluto.bldgclass), 1))),
                              Fin(30, 1)))
        IN  /\ propRes.st = "ok"
            /\ propRes.v \in {Round(raw, up) : up \in BOOLEAN}

\* A record on a lot of area zero with a high assessed value has been scored.
C13_Witness ==
    /\ propRes.st = "ok"
    /\ pluto.lotarea = Num(0) /\ pluto.assesstot = Num(500000)
    /\ pluto.yearbuilt = Num(DEFAULT_YEARBUILT)
    /\ pluto.bldgclass = BcStr(<<"A", "9">>)

\* C14: every accepted value was computed from a lattice point inside the
\* polygon whose local sample holds at least 100 incidents, and it is the
\* severity of that sample.
C14_AcceptedAreDenseInside ==
    /\ Len(origin) = Len(boroScores)
    /\ \A i \in DOMAIN boroScores :
          LET p    == lattice[origin[i]]
              info == get_crime_data_api(p.kind)
          IN  /\ p.inside
              /\ info.st = "ok"
              /\ Len(info.v.data) >= 100
              /\ boroScores[i] = score_crime_severity(info.v).v

\* The function has returned a value from a lattice that also holds a point
\* outside the polygon and a fetched point below the threshold.
C14_Witness ==
    /\ sampler.st = "ok" /\ Len(boroScores) >= 1
    /\ \E i \in DOMAIN lattice : ~lattice[i].inside
    /\ \E i \in DOMAIN lattice : lattice[i].inside /\ lattice[i].kind = "sparse"
    /\ \E i \in DOMAIN fetches : lattice[fetches[i]].kind = "sparse"

\* C15: at every point of the loop the number of accepted values is at most
\* the target, for every target from 0 on.
C15_NeverAboveTarget == Len(boroScores) <= required

\* The target was reached although more dense candidates were left.
C15_Witness ==
    /\ sampler.st = "ok" /\ required >= 1 /\ Len(boroScores) = required
    /\ Cardinality({i \in Candidates(lattice) :
                       lattice[i].kind \in {"felonies", "violations"}}) > required

\* C16: the candidates are fetched in the shuffled order, each at most once;
\* no fetch is issued once the target is reached; the function ends, and if it
\* returns below the target every candidate has been fetched.
NoRepeat(seq) == \A i, j \in DOMAIN seq : seq[i] = seq[j] => i = j

IsPrefix(a, b) == Len(a) <= Len(b) /\ \A i \in DOMAIN a : a[i] = b[i]

C16_SequentialBounded ==
    /\ [](IsPrefix(fetches, pts) /\ NoRepeat(fetches))
    /\ [][Len(boroScores) >= required => fetches' = fetches]_vars
    /\ [](sampler.st = "ok" => (Len(boroScores) >= required \/ fetches = pts))
    /\ <>(sampler.st # "pending")

\* The list was exhausted below the target after several fetches.
C16_Witness ==
    /\ sampler.st = "ok" /\ Len(boroScores) < required
    /\ Len(fetches) >= 2 /\ fetches = pts

\* C17: when the candidates are exhausted below the target, zero included,
\* sample_high_density_grid warns and returns the values accepted so far
\* instead of raising; the app then takes the baseline from them (the mean,
\* and the deviation with the divisor n; 2.0 and 1.0 for an empty sample)
\* and shows a crime result.
ReducedBaseline ==
    LET n == Len(boroScores)
        s == ToFloat(crime["std"])
        v == XDiv(SumX(Squares(boroScores)), Fin(n, 1))
    IN  /\ "crime" \in shown
        /\ shown \cap {"crime warning", "crime unavailable"} = {}
        /\ crime["severity_score"] = FromFloat(severity.v)
        /\ crimeTier \in {"High", "Moderate", "Low"}
        /\ IF n = 0
           THEN crime["mean"] = Num(DEFAULT_MEAN) /\ crime["std"] = Num(DEFAULT_STD)
           ELSE /\ XMul(ToFloat(crime["mean"]), Fin(n, 1)) = SumX(boroScores)
                /\ ~XLt(v, XMul(s, s))
                /\ XLt(v, XMul(XAdd(s, Fin(1, SQRT_SCALE)), XAdd(s, Fin(1, SQRT_SCALE))))

C17_ReducedSampleTolerated ==
    /\ [][(/\ sampler.st = "pending" /\ idx >= 1
           /\ Exhausted(idx, pts) /\ Len(boroScores) < required)
          => (sampler' = Ok(Len(boroScores)) /\ warned' /\ boroScores' = boroScores)]_vars
    /\ [](sampler.st = "ok" /\ Len(boroScores) < required
            => warned /\ sampler.v = Len(boroScores))
    /\ []((/\ sampler.st = "ok" /\ Len(boroScores) < required
           /\ appPc \in {"pluto", "generate", "generating", "end"})
          => ReducedBaseline)

\* A request ended whose baseline came from two different values, one fewer
\* than any target above two.
C17_Witness ==
    /\ appPc = "end" /\ sampler.st = "ok" /\ warned
    /\ Len(boroScores) = 2 /\ boroScores[1] # boroScores[2]
    /\ Len(boroScores) < required
    /\ "crime" \in shown

\* A request ended whose sample was empty.
C17_EmptySample ==
    /\ appPc = "end" /\ sampler.st = "ok" /\ warned
    /\ boroScores = <<>> /\ "crime" \in shown

\* C18: whichever single modality fails upstream (flood with its geocoding,
\* crime, property), the request goes on: at its end all three modalities
\* have been fetched, and each is displayed or reported as unavailable.
RequestOver == appPc \in {"stopped", "end"}

Reported(modality) ==
    CASE modality = "flood" -> shown \cap {"flood", "flood error"} # {}
      [] modality = "crime" -> shown \cap {"crime", "crime unavailable"} # {}
      [] OTHER              -> shown \cap {"pluto", "pluto not found"} # {}

C18_FailureIsolated ==
    RequestOver =>
        /\ fetched = {"flood", "crime", "pluto"}
        /\ \A modality \in {"flood", "crime", "pluto"} : Reported(modality)

\* What the code does keep: once the flood column has succeeded, a failure of
\* the crime fetch or of the property lookup is reported for that modality
\* and the others are fetched and displayed.
C18_CrimePropertyIsolated ==
    appPc = "end" =>
        /\ fetched = {"flood", "crime", "pluto"}
        /\ "flood" \in shown
        /\ \A modality \in {"crime", "pluto"} : Reported(modality)

\* A request that ended with crime unavailable and the other two displayed.
C18_CrimeFailed ==
    appPc = "end" /\ {"flood", "crime warning", "crime unavailable", "pluto"} \subseteq shown

\* C19: when the narrative step fails (the LLM call raises although the scores
\* were computed, or there is no API key), the failure is surfaced and the
\* four scores are shown.
ScoresComputable ==
    compute_scores(_sanitize(flood), _sanitize(crime), pluto, fp).st = "ok"

NarrativeFailed ==
    /\ appPc = "end"
    /\ \/ ~apiKey
       \/ genRes[1].st = "raise" /\ ScoresComputable

Surfaced == shown \cap {"generation error", "key warning"} # {}

C19_ScoresShownOnFailure == NarrativeFailed => (Surfaced /\ "scores" \in shown)

\* What the code does: the failure is surfaced, and no score is shown.
C19_FailureHidesScores == NarrativeFailed => (Surfaced /\ "scores" \notin shown)

\* The LLM call raised after retrieval had succeeded.
C19_LlmRaised ==
    /\ appPc = "end" /\ apiKey /\ genRes[1].st = "raise" /\ ScoresComputable
    /\ docs[1] # "raise" /\ llm[1] = "raise"

\* C20: the scores generate_risk_assessment returns are the bundle
\* compute_scores gives on the sanitized inputs, whatever retrieval and the LLM
\* answered: two runs on the same flood, crime and property inputs return
\* the same scores.
C20_ScoresIndependentOfNarrator ==
    /\ \A run \in 1..2 :
          genRes[run].st = "ok" =>
              genRes[run].scores =
                  compute_scores(_sanitize(flood), _sanitize(crime), pluto, fp)
    /\ (genRes[1].st = "ok" /\ genRes[2].st = "ok")
          => genRes[1].scores = genRes[2].scores

\* Both runs returned, on different documents and different LLM responses.
C20_Witness ==
    /\ genRes[1].st = "ok" /\ genRes[2].st = "ok"
    /\ docs[1] # docs[2] /\ llm[1] # llm[2]
    /\ genRes[1].narrative # genRes[2].narrative
    /\ genRes[1].scores.overall \in 1..99

\* C21: neither geocoder lets an exception escape, whatever the borough code
\* and whatever the upstream service does: each call returns a result or None.
C21_GeocodersNeverRaise == \A g \in Geocoders : geoRes[g].st # "raise"

\* What the code does keep: geocode_to_bbl never raises, and
\* geocode_address_1b never raises on a borough code that int() accepts.
C21_CaughtInsideTry ==
    /\ geoRes["geocode_to_bbl"].st # "raise"
    /\ IntRaises(geoCode) = "" => geoRes["geocode_address_1b"].st # "raise"
    /\ \A g \in Geocoders :
          geoRes[g].st = "ok" =>
              (geoRes[g].v = "found" <=> geoUp[g] \in {"found", "parts", "flat"})

\* Both geocoders returned None on upstream failures.
C21_BothNotFound ==
    /\ \A g \in Geocoders : geoRes[g] = GeoReturn("None")
    /\ geoUp["geocode_address_1b"] = "malformed" /\ geoUp["geocode_to_bbl"] = "badparts"

\* C22: the pages are requested at the offsets 0, 1000, 2000, ... with the
\* fixed limit; the records collected are the pages returned so far, in order;
\* and the loop has ended exactly if the API has returned an empty page.
RequestsInOrder ==
    \A k \in DOMAIN requests :
        requests[k] = [offset |-> (k - 1) * API_LIMIT, limit |-> API_LIMIT]

RECURSIVE PagesBefore(_)
PagesBefore(k) ==
    IF k = 0 THEN <<>> ELSE PagesBefore(k - 1) \o Page(k - 1, api[k - 1])

Answered(answers) == {k \in DOMAIN requests : api[k - 1] \in answers}

\* The pages that went into all_data: every request but one that ended the loop.
Collected == Len(requests) - (IF pager.st = "pending" THEN 0 ELSE 1)

CollectedInOrder ==
    /\ all_data = PagesBefore(Collected)
    /\ \A k \in 1..Collected : api[k - 1] >= 1

C22_TerminatesIffEmptyPage ==
    /\ RequestsInOrder /\ CollectedInOrder
    /\ pager.st # "pending" <=> Answered({0}) # {}

\* C22 as the code has it: the loop also ends, with the exception of
\* raise_for_status, at the first request that fails.  It returns exactly if
\* an empty page came back, raises exactly if a request failed, issues no
\* request after either, and ends whenever one of the two lies ahead.
C22_PagesUntilEmptyOrError ==
    /\ [](RequestsInOrder /\ CollectedInOrder)
    /\ [](pager.st = "ok" <=> Answered({0}) # {})
    /\ [](pager.st = "raise" <=> Answered({HTTP_ERROR}) # {})
    /\ [](pager.st # "pending" => Answered({0, HTTP_ERROR}) = {Len(requests)})
    /\ [][pager.st # "pending" => requests' = requests]_vars
    /\ ((\E i \in DOMAIN api : api[i] \in {0, HTTP_ERROR}) ~> pager.st # "pending")
    /\ ((\A i \in DOMAIN api : api[i] >= 1) => [](pager.st = "pending"))

\* The loop returned after a short page and a full page.
C22_Witness ==
    /\ pager.st = "ok" /\ Len(requests) = 3
    /\ api[0] = 1 /\ api[1] = MaxPageLen
    /\ Len(all_data) = 1 + MaxPageLen

\* The loop was ended by a failed request after a page had been collected.
C22_EndedByError == pager.st = "raise" /\ Len(all_data) >= 1

\* C23: each of the two values is labelled by the integer 1..5 it rounds to,
\* and "unknown" if it is missing, NaN or rounds outside 1..5, without an
\* exception; at most n_results documents are returned, never more than the
\* collection holds, and none from an empty collection.
NearestLevel(v, level) ==
    /\ v.k \in {"num", "numstr"}
    /\ \/ Abs(2 * (v.n - level * v.d)) < v.d
       \/ Abs(2 * (v.n - level * v.d)) = v.d /\ level % 2 = 0

Labelled(v, label) ==
    IF \E level \in DOMAIN RISK_LEVEL : NearestLevel(v, level)
    THEN \E level \in DOMAIN RISK_LEVEL :
            NearestLevel(v, level) /\ label = RISK_LEVEL[level]
    ELSE label = "unknown"

QueryAnswered ==
    /\ queryRes.st = "ok"
    /\ Labelled(profile.fshri, queryRes.labels[1])
    /\ Labelled(profile.ss_2050, queryRes.labels[2])
    /\ Len(queryRes.docs) <= n_results
    /\ Len(queryRes.docs) <= collection
    /\ collection = 0 => queryRes.docs = <<>>
    /\ Len(queryRes.docs) = Least(n_results, collection)

C23_LabelsAndTopK == queryRes.st # "pending" => QueryAnswered

\* What the code does keep: the same for every value that is not infinite.
C23_FiniteProfile ==
    (/\ queryRes.st # "pending"
     /\ \A key \in DOMAIN profile : profile[key].k \notin {"inf", "ninf"})
        => QueryAnswered

\* A tie was labelled by the even level and fewer documents than asked for
\* were returned.
C23_TieAndShortCollection ==
    /\ queryRes.st = "ok"
    /\ profile.fshri = Ratio(5, 2) /\ queryRes.labels[1] = "low"
    /\ profile.ss_2050 = NoneV /\ queryRes.labels[2] = "unknown"
    /\ collection \in 1..(n_results - 1) /\ Len(queryRes.docs) = collection

\* C24: a call of compute_scores or of generate_risk_assessment leaves the
\* flood dict, the crime dict and the property record of the caller as they
\* were, whether it returns or raises.
C24_ArgumentsUnchanged ==
    [][flood' = flood /\ crime' = crime /\ pluto' = pluto]_vars

\* Both functions were called on a flood dict that holds a NaN, and returned.
C24_Witness ==
    /\ scores.st = "ok" /\ genRes[1].st = "ok" /\ genRes[2].st # "pending"
    /\ _sanitize(flood) # flood
    /\ pluto # PlutoNone

\* C25: in any sequence of calls of _get_store, also after a call that raised
\* during ingestion, a call that returns hands back an ingested store (not an
\* empty collection while the source holds tracts), and ingestion does not
\* run again once it has completed.
ReturnedIngested(call) ==
    (call.st = "ok" /\ tracts > 0) => call.count > 0

C25_ReturnedStoreIngested ==
    /\ \A k \in DOMAIN storeCalls : ReturnedIngested(storeCalls[k])
    /\ ingestions <= 1

\* What the code does keep: ingestion completes at most once, and a call
\* returns an empty collection over a source with tracts only after a call
\* that raised during ingestion.
C25_UnlessIngestionFailed ==
    /\ ingestions <= 1
    /\ \A k \in DOMAIN storeCalls :
          \/ ReturnedIngested(storeCalls[k])
          \/ \E j \in 1..(k - 1) :
                storeCalls[j].st = "raise" /\ storeCalls[j].exc = "ingestion"

\* A first call ingested the tracts and the later calls returned that store.
C25_IngestedOnce ==
    /\ Len(storeCalls) = MaxCalls /\ ingestions = 1 /\ tracts > 0
    /\ \A k \in DOMAIN storeCalls : storeCalls[k] = Returned(tracts)

====
